---------------------------- MODULE Spec2Model ----------------------------
(***************************************************************************)
(* Model of general_seedcracker.cu: the java.util.Random LCG, the three    *)
(* structure verifiers, the low-20-bit pre-filter, the reversing,          *)
(* brute-force and pillarseed kernels, and the host driver that picks a    *)
(* strategy, collects the hits and writes found_seeds.txt.                 *)
(*                                                                         *)
(* TLC integers are 32 bits wide, the program's are 48 and 64 bits wide.   *)
(* A 48-bit quantity is held as four 12-bit limbs <<l0, l1, l2, l3>>, l0   *)
(* least significant.  The program's int64/uint64 sums, differences,       *)
(* products and XORs are always masked with MASK_48 (or 0xFFFFFFFF) before *)
(* any bit above 47 is looked at, and the low 48 bits of a wrapping 64-bit *)
(* result are the 48-bit wrapping result, so the limb operators below      *)
(* compute exactly the masked values the program uses.                     *)
(***************************************************************************)
EXTENDS Integers, Sequences, FiniteSets, TLC

VARIABLES
    overflowWraps,        \* the build: TRUE when signed int32 overflow wraps
    sample,               \* the part of each kernel's grid the model follows
    file,                 \* argv[1]: the lines of the input file, NotOpen when it cannot be read
    warned_lines,         \* stderr: the numbers of the lines reported as malformed
    h_all_constraints,    \* main: the constraints loaded from the file
    h_pillarseed,         \* main: the pillar seed, NoPillar (-1) when none
    pc,                   \* where the host thread is
    kernel,               \* device: the kernel launched last, "none" before any
    tasks,                \* device: work of the running kernel not yet done
    holding,              \* device: threads between atomicAdd and their store
    d_lower20_results,    \* run_stage1: what the filter kernel stored
    d_lower20_count,      \* run_stage1: the filter kernel's counter
    d_valid_lower20bits,  \* StandardSearch: the surviving low-20-bit values
    lower20_count,        \* StandardSearch: how many there are
    d_anchor,             \* run_stage2_reversing: the anchor copied to the device
    d_validators,         \* run_stage2_reversing: the validators copied to the device
    d_found_seeds,        \* main: the output array, results_buffer_size slots
    d_found_count,        \* main: the hit counter
    rands,                \* device: each thread's RNG object as its last verifier call left it
    deviceFault,          \* device: a sticky error is pending
    warned,               \* main: the truncation message was printed
    outfile,              \* found_seeds.txt: NoFile while main has not opened it (the
                          \* file is absent or as an earlier run left it), or the lines written
    exit_code,            \* main: NotExited, or the process's exit code
    launched,             \* history: the stages and kernels started, in order
    examined,             \* history: candidates a stage-2 kernel handed to the verifiers
    visits,               \* history: how often each unit of stage-2 work was done
    stored,               \* history: every (index, seed, thread) got from the hit counter
    lab                   \* a StandaloneChunkRand object called on its own, outside main

vars == << overflowWraps, sample, file, warned_lines, h_all_constraints, h_pillarseed, pc, kernel, tasks,
           holding,
           d_lower20_results, d_lower20_count, d_valid_lower20bits, lower20_count,
           d_anchor, d_validators,
           d_found_seeds, d_found_count, rands, deviceFault, warned, outfile, exit_code,
           launched, examined, visits, stored, lab >>

(***************************************************************************)
(* 48-bit words                                                            *)
(***************************************************************************)
LimbBase == 2^12

Pow2(k) == 2^k

\* The word of a non-negative integer below 2^31.
FromNat(n) ==
    << n % LimbBase, (n \div LimbBase) % LimbBase,
       (n \div (LimbBase * LimbBase)) % LimbBase, 0 >>

ZeroWord == FromNat(0)

\* Carry propagation: t holds four limb sums, each below 2^31.
Carry1(t) == t[2] + t[1] \div LimbBase
Carry2(t) == t[3] + Carry1(t) \div LimbBase
Carry3(t) == t[4] + Carry2(t) \div LimbBase

Normalize(t) ==
    << t[1] % LimbBase, Carry1(t) % LimbBase, Carry2(t) % LimbBase, Carry3(t) % LimbBase >>

\* (a + b) & MASK_48
Add48(a, b) == Normalize(<< a[1] + b[1], a[2] + b[2], a[3] + b[3], a[4] + b[4] >>)

\* (~a) & MASK_48
Not48(a) ==
    << LimbBase - 1 - a[1], LimbBase - 1 - a[2],
       LimbBase - 1 - a[3], LimbBase - 1 - a[4] >>

\* (-a) & MASK_48 : two's complement, ~a + 1
Neg48(a) == Add48(Not48(a), FromNat(1))

\* (a - b) & MASK_48
Sub48(a, b) == Add48(a, Neg48(b))

\* (a * b) & MASK_48 : schoolbook product, columns above limb 3 dropped
Mul48(a, b) ==
    Normalize(<< a[1] * b[1],
                 a[1] * b[2] + a[2] * b[1],
                 a[1] * b[3] + a[2] * b[2] + a[3] * b[1],
                 a[1] * b[4] + a[2] * b[3] + a[3] * b[2] + a[4] * b[1] >>)

\* The word of a signed 32-bit integer, sign-extended (an int32 widened to
\* int64 and then masked to 48 bits).
FromInt(n) == IF n >= 0 THEN FromNat(n) ELSE Not48(FromNat(0 - (n + 1)))

RECURSIVE XorBits(_, _, _)
\* Bitwise XOR of two non-negative integers below 2^k.
XorBits(a, b, k) ==
    IF k = 0 THEN 0
    ELSE ((a + b) % 2) + 2 * XorBits(a \div 2, b \div 2, k - 1)

\* (a ^ b) on 48-bit words
Xor48(a, b) ==
    << XorBits(a[1], b[1], 12), XorBits(a[2], b[2], 12),
       XorBits(a[3], b[3], 12), XorBits(a[4], b[4], 12) >>


\* (uint64_t)w >> k as an integer, for a result below 2^31 (k >= 17).
LimbShr(l, pos, k) ==
    IF pos >= k THEN l * Pow2(pos - k)
    ELSE IF k - pos >= 12 THEN 0 ELSE l \div Pow2(k - pos)

ShrInt(w, k) ==
    LimbShr(w[1], 0, k) + LimbShr(w[2], 12, k) + LimbShr(w[3], 24, k) + LimbShr(w[4], 36, k)

\* w & (2^k - 1) as an integer, k <= 30.
LimbLow(l, pos, k) ==
    IF pos >= k THEN 0
    ELSE IF k - pos >= 12 THEN l * Pow2(pos) ELSE (l % Pow2(k - pos)) * Pow2(pos)

LowBits(w, k) == LimbLow(w[1], 0, k) + LimbLow(w[2], 12, k) + LimbLow(w[3], 24, k)

\* w & (2^k - 1) as a word, 0 <= k <= 48.
LimbMask(l, pos, k) ==
    IF pos >= k THEN 0 ELSE IF k - pos >= 12 THEN l ELSE l % Pow2(k - pos)

MaskWord(w, k) ==
    << LimbMask(w[1], 0, k), LimbMask(w[2], 12, k), LimbMask(w[3], 24, k), LimbMask(w[4], 36, k) >>

\* 2^k as a word, 0 <= k <= 47.
Pow2Word(k) == [i \in 1..4 |-> IF (i - 1) = k \div 12 THEN Pow2(k % 12) ELSE 0]

\* (n << k) & MASK_48 for an integer n in [0, 2^31)
ShlWord(n, k) == Mul48(FromNat(n), Pow2Word(k))

RECURSIVE DecFrom(_, _)
DecFrom(acc, chunks) ==
    IF chunks = << >> THEN acc
    ELSE DecFrom(Add48(Mul48(acc, FromNat(1000000)), FromNat(Head(chunks))), Tail(chunks))

\* The word of a decimal literal given in groups of six digits, most
\* significant first: Dec(<<25214, 903917>>) is 25214903917.
Dec(chunks) == DecFrom(ZeroWord, chunks)

\* Unsigned order of two words (std::sort on non-negative int64 seeds).
WordLess(a, b) ==
    \/ a[4] < b[4]
    \/ a[4] = b[4] /\ a[3] < b[3]
    \/ a[4] = b[4] /\ a[3] = b[3] /\ a[2] < b[2]
    \/ a[4] = b[4] /\ a[3] = b[3] /\ a[2] = b[2] /\ a[1] < b[1]

Range(seq) == { seq[i] : i \in 1..Len(seq) }

(***************************************************************************)
(* C integer division                                                      *)
(***************************************************************************)
Abs(a) == IF a < 0 THEN 0 - a ELSE a

\* a / n of C: the quotient truncated toward zero
TruncDiv(a, n) ==
    IF (a < 0) = (n < 0) THEN Abs(a) \div Abs(n) ELSE 0 - (Abs(a) \div Abs(n))

\* a % n of C: the remainder has the sign of a
TruncMod(a, n) == a - n * TruncDiv(a, n)

\* A floorDiv without the correction: the quotient of C as it is
floorDivTruncated(a, n) == TruncDiv(a, n)

floorDiv(a, n) ==
    LET r == TruncDiv(a, n)
    IN  IF (TruncMod(a, n) # 0) /\ ((a < 0) # (n < 0)) THEN r - 1 ELSE r

(***************************************************************************)
(* Constants                                                               *)
(***************************************************************************)
LCG_MULT == Dec(<<25214, 903917>>)
LCG_ADD == FromNat(11)
XOR_MASK == Dec(<<25214, 903917>>)
LCG_MULT_INV == Dec(<<246, 154705, 703781>>)
MULT_A == Dec(<<341873, 128712>>)
MULT_B == Dec(<<132897, 987541>>)
PILLAR_MULT == FromNat(1540035429)
PILLAR_ADD == FromNat(239479465)

SHIPWRECK_SPACING == 24
SHIPWRECK_SEPARATION == 4
SHIPWRECK_SALT == FromNat(165745295)
OCEAN_TYPE_COUNT == 20
BEACHED_TYPE_COUNT == 11

PORTAL_SPACING == 40
PORTAL_SEPARATION == 15
RUINED_PORTAL_SALT == FromNat(34222645)

VILLAGE_SPACING == 34
VILLAGE_SEPARATION == 8
VILLAGE_SALT == FromNat(10387312)

\* ShipwreckStructure::initialize_device_constants
d_STRUCTURE_LOCATION_OCEAN ==
    << "with_mast", "upsidedown_full", "upsidedown_fronthalf", "upsidedown_backhalf",
       "sideways_full", "sideways_fronthalf", "sideways_backhalf", "rightsideup_full",
       "rightsideup_fronthalf", "rightsideup_backhalf", "with_mast_degraded",
       "upsidedown_full_degraded", "upsidedown_fronthalf_degraded",
       "upsidedown_backhalf_degraded", "sideways_full_degraded",
       "sideways_fronthalf_degraded", "sideways_backhalf_degraded",
       "rightsideup_full_degraded", "rightsideup_fronthalf_degraded",
       "rightsideup_backhalf_degraded" >>

d_STRUCTURE_LOCATION_BEACHED ==
    << "with_mast", "sideways_full", "sideways_fronthalf", "sideways_backhalf",
       "rightsideup_full", "rightsideup_fronthalf", "rightsideup_backhalf",
       "with_mast_degraded", "rightsideup_full_degraded",
       "rightsideup_fronthalf_degraded", "rightsideup_backhalf_degraded" >>

\* enum class PortalType: PORTAL_1 .. PORTAL_10 are 0 .. 9, GIANT_PORTAL_1 .. 3 are 10 .. 12
PORTAL_1 == 0
GIANT_PORTAL_1 == 10

\* enum class BiomeCategory
MOUNTAINS == 1
DESERT == 2
JUNGLE == 3

\* enum class BlockMirror
MIRROR_NONE == 0
FRONT_BACK == 1

\* main: h_pillarseed when the file gives no pillar seed
NoPillar == FromInt(-1)

\* An object declared without a value
Uninit == << "uninitialized" >>

(***************************************************************************)
(* StandaloneChunkRand.  The object's only field is the 48-bit seed; each  *)
(* method is an operator from the seed before the call to the seed after   *)
(* it and, where the method returns something, the value returned.         *)
(***************************************************************************)
\* A setSeed that does not mask: the bits of s above bit 47 stay in the seed
setSeedUnmasked(s) == Xor48(s, XOR_MASK) \o SubSeq(s, 5, Len(s))

\* seed = (s ^ XOR_MASK) & MASK_48
setSeed(s) == Xor48(s, XOR_MASK)

\* seed = (seed * LCG_MULT + LCG_ADD) & MASK_48
LcgStep(seed) == Add48(Mul48(seed, LCG_MULT), LCG_ADD)

\* (int32_t)x for x = 2 * hi + lo with hi in [0, 2^31), lo in {0, 1}
ToInt32(hi, lo) ==
    IF hi < Pow2(30) THEN 2 * hi + lo
    ELSE ((2 * (hi - Pow2(30)) + lo) - Pow2(30)) - Pow2(30)

\* The value next returns, from the seed s it has just stored:
\* (int32_t)((uint64_t)seed >> (48 - bits))
NextResult(s, bits) ==
    [seed |-> s,
     val |-> IF bits = 32 THEN ToInt32(ShrInt(s, 17), LowBits(s, 17) \div Pow2(16))
             ELSE ShrInt(s, 48 - bits)]

next(seed, bits) == NextResult(LcgStep(seed), bits)

RECURSIVE IsPow2(_)
\* (bound & -bound) == bound, for bound > 0
IsPow2(bound) == bound = 1 \/ (bound % 2 = 0 /\ IsPow2(bound \div 2))

\* bits - val + (bound - 1) < 0 on non-negative int32 operands: true only when
\* the sum exceeds 2^31 - 1 and wraps to a negative number.  Signed overflow is
\* undefined in C++: a build either wraps (the Java behaviour the code is
\* ported from) or folds the test of non-negative operands to false.
nextIntRejects(bits, val, bound) ==
    overflowWraps /\ bits - val > 2147483647 - (bound - 1)

RECURSIVE nextIntLoop(_, _)
\* One turn of do { bits = next(31); val = bits % bound; } while (...),
\* n being what next(31) returned
nextIntTurn(n, bound) ==
    IF nextIntRejects(n.val, n.val % bound, bound) THEN nextIntLoop(n.seed, bound)
    ELSE [seed |-> n.seed, val |-> n.val % bound]

nextIntLoop(seed, bound) == nextIntTurn(next(seed, 31), bound)

\* A power-of-two nextInt that takes the low bits of the draw
nextIntPow2LowBits(n, bound) == [seed |-> n.seed, val |-> n.val % bound]

\* (int32_t)((bound * (int64_t)bits) >> 31) for a power of two bound, n
\* being what next(31) returned
nextIntPow2(n, bound) ==
    [seed |-> n.seed,
     val |-> IF bound = 1 THEN 0 ELSE n.val \div (Pow2(30) \div (bound \div 2))]

nextInt(seed, bound) ==
    IF bound <= 0 THEN [seed |-> seed, val |-> 0]
    ELSE IF IsPow2(bound) THEN nextIntPow2(next(seed, 31), bound)
    ELSE nextIntLoop(seed, bound)

\* ((int64_t)a << 32) + b, the low 48 bits, a and b being what the two
\* next(32) calls returned
nextLongOf(a, b) ==
    [seed |-> b.seed, val |-> Add48(Mul48(FromInt(a.val), Pow2Word(32)), FromInt(b.val))]

nextLongSecond(a) == nextLongOf(a, next(a.seed, 32))

nextLong(seed) == nextLongSecond(next(seed, 32))

\* next(24) / 16777216.0f is exact in single precision; the model keeps the
\* 24-bit numerator.
nextFloat(seed) == next(seed, 24)

\* x < 0.05f for x = num / 2^24 : 0.05f is 13421773 / 2^28 = 838860.8125 / 2^24
FloatBelow005(num) == num < 838861

\* x < 0.5f for x = num / 2^24
FloatBelowHalf(num) == num < Pow2(23)

setRegionSeed(structureSeed, regionX, regionZ, salt) ==
    setSeed(Add48(Add48(Add48(Mul48(FromInt(regionX), MULT_A),
                              Mul48(FromInt(regionZ), MULT_B)),
                        structureSeed), salt))

\* setSeed((long long)chunkX * a ^ (long long)chunkZ * b ^ worldSeed)
setCarverSeedOf(worldSeed, chunkX, chunkZ, a, b) ==
    setSeed(Xor48(Xor48(Mul48(FromInt(chunkX), a.val), Mul48(FromInt(chunkZ), b.val)),
                  worldSeed))

setCarverSeedSecond(worldSeed, chunkX, chunkZ, a) ==
    setCarverSeedOf(worldSeed, chunkX, chunkZ, a, nextLong(a.seed))

setCarverSeed(worldSeed, chunkX, chunkZ) ==
    setCarverSeedSecond(worldSeed, chunkX, chunkZ, nextLong(setSeed(worldSeed)))

(***************************************************************************)
(* Constraints.  A constraint is a record with the common fields type,     *)
(* chunkX, chunkZ and the fields of its kind's payload:                    *)
(*   SHIPWRECK      rotation, stype, isBeached                             *)
(*   RUINED_PORTAL  rotation, mirror, ptype, category                      *)
(*   VILLAGE        rotation, piece, vtype, is_abandoned                   *)
(* rotation is the BlockRotation ordinal 0 .. 3.                           *)
(***************************************************************************)

(***************************************************************************)
(* Verifiers.  Each takes the caller's RNG object (its seed field) and     *)
(* returns the verdict with the RNG as the call leaves it.                 *)
(***************************************************************************)
Verdict(ok, rand) == [ok |-> ok, rand |-> rand]

VillagePiece(piece, abandoned) == [piece |-> piece, abandoned |-> abandoned]

\* The piece and abandoned flag get_village_properties_device derives
\* from the draw t of a village of the given type.
VillagePieceOf(vtype, t) ==
    CASE vtype = "PLAINS" ->
           IF t < 50 THEN VillagePiece("plains_fountain_01", FALSE)
           ELSE IF t < 100 THEN VillagePiece("plains_meeting_point_1", FALSE)
           ELSE IF t < 150 THEN VillagePiece("plains_meeting_point_2", FALSE)
           ELSE IF t < 200 THEN VillagePiece("plains_meeting_point_3", FALSE)
           ELSE IF t < 201 THEN VillagePiece("plains_fountain_01", TRUE)
           ELSE IF t < 202 THEN VillagePiece("plains_meeting_point_1", TRUE)
           ELSE IF t < 203 THEN VillagePiece("plains_meeting_point_2", TRUE)
           ELSE VillagePiece("plains_meeting_point_3", TRUE)
      [] vtype = "DESERT" ->
           IF t < 98 THEN VillagePiece("desert_meeting_point_1", FALSE)
           ELSE IF t < 196 THEN VillagePiece("desert_meeting_point_2", FALSE)
           ELSE IF t < 245 THEN VillagePiece("desert_meeting_point_3", FALSE)
           ELSE IF t < 247 THEN VillagePiece("desert_meeting_point_1", TRUE)
           ELSE IF t < 249 THEN VillagePiece("desert_meeting_point_2", TRUE)
           ELSE VillagePiece("desert_meeting_point_3", TRUE)
      [] vtype = "SAVANNA" ->
           IF t < 100 THEN VillagePiece("savanna_meeting_point_1", FALSE)
           ELSE IF t < 150 THEN VillagePiece("savanna_meeting_point_2", FALSE)
           ELSE IF t < 300 THEN VillagePiece("savanna_meeting_point_3", FALSE)
           ELSE IF t < 450 THEN VillagePiece("savanna_meeting_point_4", FALSE)
           ELSE IF t < 452 THEN VillagePiece("savanna_meeting_point_1", TRUE)
           ELSE IF t < 453 THEN VillagePiece("savanna_meeting_point_2", TRUE)
           ELSE IF t < 456 THEN VillagePiece("savanna_meeting_point_3", TRUE)
           ELSE VillagePiece("savanna_meeting_point_4", TRUE)
      [] vtype = "TAIGA" ->
           IF t < 49 THEN VillagePiece("taiga_meeting_point_1", FALSE)
           ELSE IF t < 98 THEN VillagePiece("taiga_meeting_point_2", FALSE)
           ELSE IF t < 99 THEN VillagePiece("taiga_meeting_point_1", TRUE)
           ELSE VillagePiece("taiga_meeting_point_2", TRUE)
      [] vtype = "SNOWY" ->
           IF t < 100 THEN VillagePiece("snowy_meeting_point_1", FALSE)
           ELSE IF t < 150 THEN VillagePiece("snowy_meeting_point_2", FALSE)
           ELSE IF t < 300 THEN VillagePiece("snowy_meeting_point_3", FALSE)
           ELSE IF t < 302 THEN VillagePiece("snowy_meeting_point_1", TRUE)
           ELSE IF t < 303 THEN VillagePiece("snowy_meeting_point_2", TRUE)
           ELSE VillagePiece("snowy_meeting_point_3", TRUE)

\* Every village type drawn with the bound of PLAINS
VillageBoundPlains(vtype) == 204

\* The bound of the draw t for each village type.
VillageBound(vtype) ==
    CASE vtype = "PLAINS" -> 204
      [] vtype = "DESERT" -> 250
      [] vtype = "SAVANNA" -> 459
      [] vtype = "TAIGA" -> 100
      [] vtype = "SNOWY" -> 306

\* out_rot is what next(2) returned (r), the piece comes from the draw t
VillageProperties(vtype, r, t) ==
    [out_rot |-> r.val, out_piece |-> VillagePieceOf(vtype, t.val).piece,
     out_abandoned |-> VillagePieceOf(vtype, t.val).abandoned, rand |-> t.seed]

VillageDraw(vtype, r) == VillageProperties(vtype, r, nextInt(r.seed, VillageBound(vtype)))

get_village_properties_device(vtype, rand) == VillageDraw(vtype, next(rand, 2))

\* The placement test the three verifiers share, after setRegionSeed: the x
\* draw dx, then (only when x matches) the z draw.
PlacementZ(chunkZ, regZ, spacing, dz) == Verdict(regZ * spacing + dz.val = chunkZ, dz.seed)

PlacementX(chunkX, chunkZ, regX, regZ, spacing, offset, dx) ==
    IF regX * spacing + dx.val # chunkX THEN Verdict(FALSE, dx.seed)
    ELSE PlacementZ(chunkZ, regZ, spacing, nextInt(dx.seed, offset))

PlacementIn(structureSeed, chunkX, chunkZ, regX, regZ, spacing, offset, salt) ==
    PlacementX(chunkX, chunkZ, regX, regZ, spacing, offset,
               nextInt(setRegionSeed(structureSeed, regX, regZ, salt), offset))

Placement(structureSeed, chunkX, chunkZ, spacing, separation, salt) ==
    PlacementIn(structureSeed, chunkX, chunkZ, floorDiv(chunkX, spacing),
                floorDiv(chunkZ, spacing), spacing, spacing - separation, salt)

\* The comparison check_village_full ends with
VillageMatches(constraint, v) ==
    Verdict(/\ v.out_piece = constraint.piece
            /\ v.out_rot = constraint.rotation
            /\ v.out_abandoned = constraint.is_abandoned, v.rand)

VillageAfterPlacement(structureSeed, constraint, pl) ==
    IF ~pl.ok THEN pl
    ELSE VillageMatches(constraint,
            get_village_properties_device(constraint.vtype,
                setCarverSeed(structureSeed, constraint.chunkX, constraint.chunkZ)))

\* A village verifier that seeds only an RNG object that has no value yet and
\* otherwise draws from the state its caller left
check_village_stale(structureSeed, constraint, rand) ==
    VillageAfterPlacement(structureSeed, constraint,
        IF rand = Uninit
        THEN Placement(structureSeed, constraint.chunkX, constraint.chunkZ,
                       VILLAGE_SPACING, VILLAGE_SEPARATION, VILLAGE_SALT)
        ELSE PlacementX(constraint.chunkX, constraint.chunkZ,
                        floorDiv(constraint.chunkX, VILLAGE_SPACING),
                        floorDiv(constraint.chunkZ, VILLAGE_SPACING), VILLAGE_SPACING,
                        VILLAGE_SPACING - VILLAGE_SEPARATION,
                        nextInt(rand, VILLAGE_SPACING - VILLAGE_SEPARATION)))

check_village_full(structureSeed, constraint, rand) ==
    VillageAfterPlacement(structureSeed, constraint,
        Placement(structureSeed, constraint.chunkX, constraint.chunkZ,
                  VILLAGE_SPACING, VILLAGE_SEPARATION, VILLAGE_SALT))

\* The type looked up with the draw t, compared with the constraint's
ShipwreckType(constraint, t) ==
    Verdict((IF constraint.isBeached THEN d_STRUCTURE_LOCATION_BEACHED[t.val + 1]
             ELSE d_STRUCTURE_LOCATION_OCEAN[t.val + 1]) = constraint.stype, t.seed)

\* rot is what nextInt(4) returned
ShipwreckRotation(constraint, rot) ==
    IF rot.val # constraint.rotation THEN Verdict(FALSE, rot.seed)
    ELSE ShipwreckType(constraint,
            IF constraint.isBeached THEN nextInt(rot.seed, BEACHED_TYPE_COUNT)
            ELSE nextInt(rot.seed, OCEAN_TYPE_COUNT))

ShipwreckAfterPlacement(structureSeed, constraint, pl) ==
    IF ~pl.ok THEN pl
    ELSE ShipwreckRotation(constraint,
            nextInt(setCarverSeed(structureSeed, constraint.chunkX, constraint.chunkZ), 4))

check_shipwreck_full(structureSeed, constraint, rand) ==
    ShipwreckAfterPlacement(structureSeed, constraint,
        Placement(structureSeed, constraint.chunkX, constraint.chunkZ,
                  SHIPWRECK_SPACING, SHIPWRECK_SEPARATION, SHIPWRECK_SALT))

\* mir is what the last nextFloat returned
PortalMirror(constraint, mir) ==
    Verdict((IF FloatBelowHalf(mir.val) THEN MIRROR_NONE ELSE FRONT_BACK)
                = constraint.mirror, mir.seed)

\* rot is what nextInt(4) returned
PortalRotation(constraint, rot) ==
    IF rot.val # constraint.rotation THEN Verdict(FALSE, rot.seed)
    ELSE PortalMirror(constraint, nextFloat(rot.seed))

\* ty is what nextInt(3) or nextInt(10) returned, base the first type of its group
PortalType(constraint, base, ty) ==
    IF base + ty.val # constraint.ptype THEN Verdict(FALSE, ty.seed)
    ELSE PortalRotation(constraint, nextInt(ty.seed, 4))

\* g is what the nextFloat that decides giant or regular returned
PortalGiant(constraint, g) ==
    IF FloatBelow005(g.val) THEN PortalType(constraint, GIANT_PORTAL_1, nextInt(g.seed, 3))
    ELSE PortalType(constraint, PORTAL_1, nextInt(g.seed, 10))

\* A MOUNTAINS branch that never discards a second nextFloat
PortalMountainsOneDraw(constraint, f) == PortalGiant(constraint, nextFloat(f.seed))

\* MOUNTAINS: f is what the first nextFloat returned
PortalMountains(constraint, f) ==
    IF ~FloatBelowHalf(f.val) THEN PortalGiant(constraint, nextFloat(nextFloat(f.seed).seed))
    ELSE PortalGiant(constraint, nextFloat(f.seed))

\* switch (constraint.portal.category), c0 being the RNG after setCarverSeed
PortalCategory(constraint, c0) ==
    CASE constraint.category = DESERT -> PortalGiant(constraint, nextFloat(c0))
      [] constraint.category = JUNGLE ->
           PortalGiant(constraint, nextFloat(nextFloat(c0).seed))
      [] constraint.category = MOUNTAINS -> PortalMountains(constraint, nextFloat(c0))

PortalAfterPlacement(structureSeed, constraint, pl) ==
    IF ~pl.ok THEN pl
    ELSE PortalCategory(constraint,
            setCarverSeed(structureSeed, constraint.chunkX, constraint.chunkZ))

check_portal_full(structureSeed, constraint, rand) ==
    PortalAfterPlacement(structureSeed, constraint,
        Placement(structureSeed, constraint.chunkX, constraint.chunkZ,
                  PORTAL_SPACING, PORTAL_SEPARATION, RUINED_PORTAL_SALT))

\* The dispatch on the constraint's type that every kernel repeats.
check_full(seed, constraint, rand) ==
    IF constraint.type = "RUINED_PORTAL" THEN check_portal_full(seed, constraint, rand)
    ELSE IF constraint.type = "SHIPWRECK" THEN check_shipwreck_full(seed, constraint, rand)
    ELSE check_village_full(seed, constraint, rand)

RECURSIVE check_all(_, _, _, _)
\* v is the verdict on constraint i
check_rest(seed, cs, i, v) == IF ~v.ok THEN v ELSE check_all(seed, cs, i + 1, v.rand)

\* for (i = 0; i < num_constraints; i++) { ...; if (!ok) break; } from index i
check_all(seed, cs, i, rand) ==
    IF i > Len(cs) THEN Verdict(TRUE, rand)
    ELSE check_rest(seed, cs, i, check_full(seed, cs[i], rand))

(***************************************************************************)
(* Kernels: what one thread does with one unit of its work                 *)
(***************************************************************************)

\* ((chunk % spacing) + spacing) % spacing with C's %
ExpectedRel(chunk, spacing) == TruncMod(TruncMod(chunk, spacing) + spacing, spacing)

\* A filter that compares the x-draw only
FilterFirstDrawOnly(lower20bits, chunkX, chunkZ) ==
    ShrInt(LcgStep(setRegionSeed(FromNat(lower20bits),
                                 floorDiv(chunkX, SHIPWRECK_SPACING),
                                 floorDiv(chunkZ, SHIPWRECK_SPACING),
                                 SHIPWRECK_SALT)), 17) % 4 = chunkX % 4

canGenerate_shipwreck_20bit_fast_filter(lower20bits, chunkX, chunkZ) ==
    LET regX == floorDiv(chunkX, SHIPWRECK_SPACING)
        regZ == floorDiv(chunkZ, SHIPWRECK_SPACING)
        r0 == MaskWord(Xor48(Add48(Add48(Add48(FromNat(lower20bits),
                                               Mul48(FromInt(regX), MULT_A)),
                                         Mul48(FromInt(regZ), MULT_B)),
                                   SHIPWRECK_SALT), XOR_MASK), 32)
        r1 == MaskWord(Add48(Mul48(r0, LCG_MULT), LCG_ADD), 32)
        xCheck == ShrInt(r1, 17) % 4
        r2 == MaskWord(Add48(Mul48(r1, LCG_MULT), LCG_ADD), 32)
        zCheck == ShrInt(r2, 17) % 4
    \* chunk & 3 on a two's complement int32 is chunk mod 4
    IN  xCheck = chunkX % 4 /\ zCheck = chunkZ % 4

\* The loop of findLower20BitSeeds_kernel: TRUE when the thread reaches atomicAdd.
FilterPasses(lower20bits, shipwreck_constraints) ==
    \A i \in 1..Len(shipwreck_constraints) :
        canGenerate_shipwreck_20bit_fast_filter(lower20bits,
            shipwreck_constraints[i].chunkX, shipwreck_constraints[i].chunkZ)

\* u_state2 of reverseAndCheck_kernel: two LCG steps from the region seed of
\* the low 20 bits alone.
AnchorState2(lower20bit_seed, regX, regZ, salt) ==
    LET u_initial_part == Add48(Add48(Add48(FromNat(lower20bit_seed),
                                            Mul48(FromInt(regX), MULT_A)),
                                      Mul48(FromInt(regZ), MULT_B)), salt)
        u_state0 == Xor48(u_initial_part, XOR_MASK)
        u_state1 == LcgStep(u_state0)
    IN  LcgStep(u_state1)

\* An inverse step that leaves out the subtraction of LCG_ADD
LcgBackNoAdd(state) == Mul48(state, LCG_MULT_INV)

\* ((state - LCG_ADD) * LCG_MULT_INV) & MASK_48
LcgBack(state) == Mul48(Sub48(state, LCG_ADD), LCG_MULT_INV)

\* (state0 ^ XOR_MASK) - term_x - term_z - salt, masked to 48 bits
SeedOfState0(state0, regX, regZ, salt) ==
    Sub48(Sub48(Sub48(Xor48(state0, XOR_MASK), Mul48(FromInt(regX), MULT_A)),
                Mul48(FromInt(regZ), MULT_B)), salt)

NoSeed == << >>

\* B_base of the portal branch for the thread of lower20bit_seed
PortalBBase(anchor, lower20bit_seed) ==
    LET regX == floorDiv(anchor.chunkX, PORTAL_SPACING)
        regZ == floorDiv(anchor.chunkZ, PORTAL_SPACING)
        lower20_of_state2 ==
            LowBits(AnchorState2(lower20bit_seed, regX, regZ, RUINED_PORTAL_SALT), 20)
        K == lower20_of_state2 \div Pow2(17)
        R == ExpectedRel(anchor.chunkZ, PORTAL_SPACING)
        i_base == TruncMod(K - TruncMod(R, 8) + 8, 8)
    IN  25 * i_base + R

\* The break tested on bits_z held in an int: an int is never 2^31 or more
PortalBreaks32(B_base, m) == FALSE

\* for (m = 0; ; ++m) leaves the loop at m: 200 * m + B_base >= 2^31
PortalBreaks(B_base, m) == m > (2147483647 - B_base) \div 200

\* Iteration m of the portal branch: the seed handed to check_portal_full,
\* or NoSeed when the iteration hands none on.
PortalCandidate(anchor, lower20bit_seed, m) ==
    LET regX == floorDiv(anchor.chunkX, PORTAL_SPACING)
        regZ == floorDiv(anchor.chunkZ, PORTAL_SPACING)
        gen_regionsize == PORTAL_SPACING - PORTAL_SEPARATION
        expectedRelX == ExpectedRel(anchor.chunkX, PORTAL_SPACING)
        lower20_of_state2 ==
            LowBits(AnchorState2(lower20bit_seed, regX, regZ, RUINED_PORTAL_SALT), 20)
        bits_z == 200 * m + PortalBBase(anchor, lower20bit_seed)
        state2_candidate == Add48(ShlWord(bits_z, 17), FromNat(lower20_of_state2 % Pow2(17)))
        state1_candidate == LcgBack(state2_candidate)
        bits_x == ShrInt(state1_candidate, 17)
        state0_candidate == LcgBack(state1_candidate)
    IN  IF nextIntRejects(bits_z, bits_z % gen_regionsize, gen_regionsize) THEN NoSeed
        ELSE IF /\ bits_x >= 0
                /\ bits_x % gen_regionsize = expectedRelX
                /\ ~nextIntRejects(bits_x, bits_x % gen_regionsize, gen_regionsize)
             THEN SeedOfState0(state0_candidate, regX, regZ, RUINED_PORTAL_SALT)
             ELSE NoSeed

\* The values of test_u whose inner loop the thread of lower20bit_seed enters
ShipTestU(anchor, lower20bit_seed) ==
    LET regX == floorDiv(anchor.chunkX, SHIPWRECK_SPACING)
        regZ == floorDiv(anchor.chunkZ, SHIPWRECK_SPACING)
        gen_regionsize == SHIPWRECK_SPACING - SHIPWRECK_SEPARATION
        finalLower20LCG ==
            LowBits(AnchorState2(lower20bit_seed, regX, regZ, SHIPWRECK_SALT), 20)
        base_Z_contrib == finalLower20LCG \div Pow2(17)
    IN  { test_u \in 0..4 :
            (test_u * 8 + base_Z_contrib) % gen_regionsize
                = ExpectedRel(anchor.chunkZ, SHIPWRECK_SPACING) }

\* for (j = 0; ; j++) leaves the loop at j: 5 * j + test_u >= 2^28
ShipBreaks(test_u, j) == 5 * j + test_u >= Pow2(28)

\* Iteration j of the inner loop for test_u of the shipwreck branch
ShipCandidate(anchor, lower20bit_seed, test_u, j) ==
    LET regX == floorDiv(anchor.chunkX, SHIPWRECK_SPACING)
        regZ == floorDiv(anchor.chunkZ, SHIPWRECK_SPACING)
        gen_regionsize == SHIPWRECK_SPACING - SHIPWRECK_SEPARATION
        expectedRelX == ExpectedRel(anchor.chunkX, SHIPWRECK_SPACING)
        finalLower20LCG ==
            LowBits(AnchorState2(lower20bit_seed, regX, regZ, SHIPWRECK_SALT), 20)
        upper28LCG == 5 * j + test_u
        u_lcgStateForZ == Add48(ShlWord(upper28LCG, 20), FromNat(finalLower20LCG))
        u_lcgStateForX == LcgBack(u_lcgStateForZ)
        u_lcgInitial == LcgBack(u_lcgStateForX)
    IN  IF ShrInt(u_lcgStateForX, 17) % gen_regionsize = expectedRelX
        THEN SeedOfState0(u_lcgInitial, regX, regZ, SHIPWRECK_SALT)
        ELSE NoSeed

\* state2_candidate of iteration m of the portal branch
PortalState2Candidate(anchor, lower20bit_seed, m) ==
    Add48(ShlWord(200 * m + PortalBBase(anchor, lower20bit_seed), 17),
          FromNat(LowBits(AnchorState2(lower20bit_seed,
                                       floorDiv(anchor.chunkX, PORTAL_SPACING),
                                       floorDiv(anchor.chunkZ, PORTAL_SPACING),
                                       RUINED_PORTAL_SALT), 20) % Pow2(17)))

\* u_lcgStateForZ of iteration j for test_u of the shipwreck branch
ShipStateForZ(anchor, lower20bit_seed, test_u, j) ==
    Add48(ShlWord(5 * j + test_u, 20),
          FromNat(LowBits(AnchorState2(lower20bit_seed,
                                       floorDiv(anchor.chunkX, SHIPWRECK_SPACING),
                                       floorDiv(anchor.chunkZ, SHIPWRECK_SPACING),
                                       SHIPWRECK_SALT), 20)))

\* The state a candidate of reverseAndCheck_kernel is recovered from
ReverseState2(anchor, lower20bit_seed, t) ==
    IF anchor.type = "RUINED_PORTAL"
    THEN PortalState2Candidate(anchor, lower20bit_seed, t.y)
    ELSE ShipStateForZ(anchor, lower20bit_seed, t.z, t.y)

\* A kernel that stores every candidate its anchor accepts
AnchorAlone(seed, validators, a) == a

\* check_X_full(seed, *d_anchor, rand) && validate_candidate(seed), a being
\* the verdict on the anchor
ValidateCandidate(seed, validators, a) ==
    IF ~a.ok THEN a ELSE check_all(seed, validators, 1, a.rand)

AnchorAndValidators(seed, anchor, validators, rand) ==
    ValidateCandidate(seed, validators, check_full(seed, anchor, rand))

\* candidateSeed of bruteforceStructureSeeds_kernel
BruteCandidate(upper28_bits, lower20_val) ==
    Add48(ShlWord(upper28_bits, 20), FromNat(lower20_val))

\* A kernel that steps the pillar generator once instead of twice
PillarOneStep(pillarseed, lowerbits) ==
    MaskWord(Xor48(Add48(Mul48(Add48(Mul48(pillarseed, Pow2Word(16)), FromNat(lowerbits)),
                               PILLAR_MULT), PILLAR_ADD), XOR_MASK), 32)

\* half_seed_32bit of pillarseedSearch_kernel; pillarseed is a word below 2^32
PillarHalfSeed(pillarseed, lowerbits) ==
    LET partial_state == Add48(Mul48(pillarseed, Pow2Word(16)), FromNat(lowerbits))
        state1 == Add48(Mul48(partial_state, PILLAR_MULT), PILLAR_ADD)
        state2 == Add48(Mul48(state1, PILLAR_MULT), PILLAR_ADD)
    IN  MaskWord(Xor48(state2, XOR_MASK), 32)

\* A kernel that keeps all 48 bits of the stepped state in the candidate
PillarCandidateWide(pillarseed, lowerbits, upper16) ==
    Add48(ShlWord(upper16, 32),
          Xor48(Add48(Mul48(Add48(Mul48(Add48(Mul48(pillarseed, Pow2Word(16)),
                                              FromNat(lowerbits)),
                                        PILLAR_MULT), PILLAR_ADD),
                            PILLAR_MULT), PILLAR_ADD), XOR_MASK))

\* candidateSeed of pillarseedSearch_kernel
PillarCandidate(pillarseed, lowerbits, upper16) ==
    Add48(ShlWord(upper16, 32), PillarHalfSeed(pillarseed, lowerbits))

(***************************************************************************)
(* Text.  A std::string is a TLA+ string; its characters are its           *)
(* one-character substrings.                                               *)
(***************************************************************************)
CharAt(str, i) == SubSeq(str, i, i)

RECURSIVE find(_, _, _)
\* str.find(ch, i): the first position at or after i (from 1) holding ch;
\* 0 stands for npos
find(str, ch, i) ==
    IF i > Len(str) THEN 0
    ELSE IF CharAt(str, i) = ch THEN i ELSE find(str, ch, i + 1)

RECURSIVE find_first_not_of(_, _, _)
find_first_not_of(str, set, i) ==
    IF i > Len(str) THEN 0
    ELSE IF CharAt(str, i) \notin set THEN i ELSE find_first_not_of(str, set, i + 1)

RECURSIVE find_last_not_of(_, _, _)
\* scanning down from position i
find_last_not_of(str, set, i) ==
    IF i < 1 THEN 0
    ELSE IF CharAt(str, i) \notin set THEN i ELSE find_last_not_of(str, set, i - 1)

\* s.erase(0, s.find_first_not_of(set)); s.erase(s.find_last_not_of(set) + 1);
\* erase(0, npos) empties the string, and npos + 1 is 0
EraseAfterLast(str, set) == SubSeq(str, 1, find_last_not_of(str, set, Len(str)))

EraseBeforeFirst(str, first) == IF first = 0 THEN "" ELSE SubSeq(str, first, Len(str))

Trim(str, set) == EraseAfterLast(EraseBeforeFirst(str, find_first_not_of(str, set, 1)), set)

\* std::tolower in the "C" locale
UpperCase == "ABCDEFGHIJKLMNOPQRSTUVWXYZ"
LowerCase == "abcdefghijklmnopqrstuvwxyz"

LowerOf(ch, k) == IF k = 0 THEN ch ELSE CharAt(LowerCase, k)

tolower(ch) == LowerOf(ch, find(UpperCase, ch, 1))

\* std::transform(s.begin(), s.end(), s.begin(), tolower); s == word
LoweredEquals(str, word) ==
    /\ Len(str) = Len(word)
    /\ \A i \in 1..Len(str) : tolower(CharAt(str, i)) = CharAt(word, i)

DigitChars == "0123456789"

IsDigit(ch) == find(DigitChars, ch, 1) # 0

DigitValue(ch) == find(DigitChars, ch, 1) - 1

\* std::isspace in the "C" locale (the vertical tab cannot be written here)
SpaceChars == {" ", "\t", "\n", "\r", "\f"}

\* The result of std::stoi / std::stoll: thrown (the call threw), or the
\* value with the number of characters processed
Threw == [thrown |-> TRUE]
Converted(val, pos) == [thrown |-> FALSE, val |-> val, pos |-> pos]

RECURSIVE stoiDigits(_, _, _, _, _)
\* strtol's digit loop from position i; acc is minus the value so far, so
\* that INT_MIN is reached without overflow; any is TRUE once a digit was read
stoiDigits(str, i, negative, acc, any) ==
    IF i <= Len(str) /\ IsDigit(CharAt(str, i))
    THEN IF \/ acc < -214748364
            \/ acc = -214748364 /\ DigitValue(CharAt(str, i)) > 8
         THEN Threw   \* std::out_of_range
         ELSE stoiDigits(str, i + 1, negative, acc * 10 - DigitValue(CharAt(str, i)), TRUE)
    ELSE IF ~any THEN Threw   \* std::invalid_argument
    ELSE IF negative THEN Converted(acc, i - 1)
    ELSE IF acc = -2147483647 - 1 THEN Threw   \* std::out_of_range
    ELSE Converted(0 - acc, i - 1)

\* the optional sign at position i
stoiSign(str, i) ==
    IF i <= Len(str) /\ CharAt(str, i) = "-" THEN stoiDigits(str, i + 1, TRUE, 0, FALSE)
    ELSE IF i <= Len(str) /\ CharAt(str, i) = "+" THEN stoiDigits(str, i + 1, FALSE, 0, FALSE)
    ELSE stoiDigits(str, i, FALSE, 0, FALSE)

SkipSpace(str) == IF find_first_not_of(str, SpaceChars, 1) = 0 THEN Len(str) + 1
                  ELSE find_first_not_of(str, SpaceChars, 1)

\* std::stoi(str): leading white space, a sign, digits; what follows the
\* digits is ignored
stoi(str) == stoiSign(str, SkipSpace(str))

\* A word below 2^32
FitsUint32(w) == w[4] = 0 /\ w[3] < Pow2(8)

RECURSIVE stollDigits(_, _, _, _, _, _)
\* std::stoll's digit loop; the value is a 48-bit word, big is TRUE once it
\* has passed 0xFFFFFFFF (it then stays above, whether or not stoll throws
\* std::out_of_range in the end)
stollDigits(str, i, negative, acc, any, big) ==
    IF i <= Len(str) /\ IsDigit(CharAt(str, i))
    THEN stollDigits(str, i + 1, negative,
                     IF big THEN acc
                     ELSE Add48(Mul48(acc, FromNat(10)), FromNat(DigitValue(CharAt(str, i)))),
                     TRUE,
                     big \/ ~FitsUint32(Add48(Mul48(acc, FromNat(10)),
                                              FromNat(DigitValue(CharAt(str, i))))))
    ELSE IF ~any THEN Threw
    ELSE [thrown |-> FALSE, val |-> acc, pos |-> i - 1, negative |-> negative, big |-> big]

stollSign(str, i) ==
    IF i <= Len(str) /\ CharAt(str, i) = "-"
    THEN stollDigits(str, i + 1, TRUE, ZeroWord, FALSE, FALSE)
    ELSE IF i <= Len(str) /\ CharAt(str, i) = "+"
    THEN stollDigits(str, i + 1, FALSE, ZeroWord, FALSE, FALSE)
    ELSE stollDigits(str, i, FALSE, ZeroWord, FALSE, FALSE)

stoll(str) == stollSign(str, SkipSpace(str))

(***************************************************************************)
(* Parsing.  try_parse_constraint and parse_line return Rejected (false),  *)
(* Raised (an exception left the function) or Accepted with the            *)
(* constraint.                                                             *)
(***************************************************************************)
Rejected == [res |-> "false"]
Raised == [res |-> "throw"]
Accepted(c) == [res |-> "true", c |-> c]

\* StructureRegistry::name_to_rot
name_to_rot ==
    [n \in {"NONE", "CLOCKWISE_90", "CLOCKWISE_180", "COUNTERCLOCKWISE_90"} |->
        CASE n = "NONE" -> 0
          [] n = "CLOCKWISE_90" -> 1
          [] n = "CLOCKWISE_180" -> 2
          [] n = "COUNTERCLOCKWISE_90" -> 3]

\* ShipwreckStructure::name_to_type: the twenty names; the model keeps the
\* name as the type
ShipwreckNames == { d_STRUCTURE_LOCATION_OCEAN[i] : i \in 1..20 }

\* RuinedPortalStructure::name_to_type
PortalNames ==
    << "portal_1", "portal_2", "portal_3", "portal_4", "portal_5", "portal_6", "portal_7",
       "portal_8", "portal_9", "portal_10", "giant_portal_1", "giant_portal_2",
       "giant_portal_3" >>

PortalTypeOf(name) == (CHOOSE i \in 1..Len(PortalNames) : PortalNames[i] = name) - 1

\* VillageStructure::name_to_piece
VillagePieceNames ==
    { "plains_fountain_01", "plains_meeting_point_1", "plains_meeting_point_2",
      "plains_meeting_point_3", "desert_meeting_point_1", "desert_meeting_point_2",
      "desert_meeting_point_3", "savanna_meeting_point_1", "savanna_meeting_point_2",
      "savanna_meeting_point_3", "savanna_meeting_point_4", "taiga_meeting_point_1",
      "taiga_meeting_point_2", "snowy_meeting_point_1", "snowy_meeting_point_2",
      "snowy_meeting_point_3" }

\* VillageStructure::biome_id_to_type
biome_id_to_type == << "PLAINS", "SNOWY", "TAIGA", "SAVANNA", "DESERT" >>

\* ShipwreckStructure::try_parse_constraint; c holds chunkX and chunkZ
ShipwreckParse(parts, c) ==
    IF Len(parts) # 5 THEN Rejected
    ELSE IF parts[4] \notin ShipwreckNames THEN Rejected
    ELSE IF LoweredEquals(parts[5], "beached")
    THEN Accepted([type |-> "SHIPWRECK", chunkX |-> c.chunkX, chunkZ |-> c.chunkZ,
                   rotation |-> c.rotation, stype |-> parts[4], isBeached |-> TRUE])
    ELSE IF LoweredEquals(parts[5], "ocean")
    THEN Accepted([type |-> "SHIPWRECK", chunkX |-> c.chunkX, chunkZ |-> c.chunkZ,
                   rotation |-> c.rotation, stype |-> parts[4], isBeached |-> FALSE])
    ELSE Rejected

\* the end of RuinedPortalStructure::try_parse_constraint: cat is what
\* std::stoi(parts[5]) gave
PortalParseCategory(parts, c, mirror, cat) ==
    IF cat.thrown THEN Raised
    ELSE IF cat.val < 1 \/ cat.val > 3 THEN Rejected
    ELSE Accepted([type |-> "RUINED_PORTAL", chunkX |-> c.chunkX, chunkZ |-> c.chunkZ,
                   rotation |-> c.rotation, mirror |-> mirror,
                   ptype |-> PortalTypeOf(parts[4]), category |-> cat.val])

\* RuinedPortalStructure::try_parse_constraint
PortalParse(parts, c) ==
    IF Len(parts) # 6 THEN Rejected
    ELSE IF parts[4] \notin Range(PortalNames) THEN Rejected
    ELSE IF LoweredEquals(parts[5], "yes")
    THEN PortalParseCategory(parts, c, FRONT_BACK, stoi(parts[6]))
    ELSE IF LoweredEquals(parts[5], "no")
    THEN PortalParseCategory(parts, c, MIRROR_NONE, stoi(parts[6]))
    ELSE Rejected

\* the end of VillageStructure::try_parse_constraint
VillageParseAbandoned(parts, c, biome_id) ==
    IF Len(parts) = 6 /\ ~LoweredEquals(parts[6], "yes") /\ ~LoweredEquals(parts[6], "no")
    THEN Rejected
    ELSE Accepted([type |-> "VILLAGE", chunkX |-> c.chunkX, chunkZ |-> c.chunkZ,
                   rotation |-> c.rotation, piece |-> parts[4],
                   vtype |-> biome_id_to_type[biome_id],
                   is_abandoned |-> (Len(parts) = 6 /\ LoweredEquals(parts[6], "yes"))])

\* biome is what std::stoi(parts[4]) gave, inside its own try block
VillageParseBiome(parts, c, biome) ==
    IF biome.thrown THEN Rejected
    ELSE IF biome.val \notin DOMAIN biome_id_to_type THEN Rejected
    ELSE VillageParseAbandoned(parts, c, biome.val)

\* VillageStructure::try_parse_constraint
VillageParse(parts, c) ==
    IF Len(parts) < 5 \/ Len(parts) > 6 THEN Rejected
    ELSE IF parts[4] \notin VillagePieceNames THEN Rejected
    ELSE VillageParseBiome(parts, c, stoi(parts[5]))

\* for (const auto& s : structures) in registration order: shipwreck, ruined
\* portal, village; an exception leaves the loop
TryVillage(parts, c, portal) ==
    IF portal.res # "false" THEN portal ELSE VillageParse(parts, c)

TryPortal(parts, c, ship) ==
    IF ship.res # "false" THEN ship ELSE TryVillage(parts, c, PortalParse(parts, c))

TryStructures(parts, c) == TryPortal(parts, c, ShipwreckParse(parts, c))

RECURSIVE SplitFrom(_, _, _)
\* while (std::getline(ss, token, ',')) from position i, each token trimmed
\* of blanks and tabs; at the end of the text getline extracts nothing and
\* fails, so a text ending in a comma has no empty last token
SplitAt(str, i, parts, comma) ==
    IF comma = 0 THEN Append(parts, Trim(SubSeq(str, i, Len(str)), {" ", "\t"}))
    ELSE SplitFrom(str, comma + 1, Append(parts, Trim(SubSeq(str, i, comma - 1), {" ", "\t"})))

SplitFrom(str, i, parts) ==
    IF i > Len(str) THEN parts ELSE SplitAt(str, i, parts, find(str, ",", i))

\* the try block of parse_line
ParseParts(parts, x, z) ==
    IF x.thrown \/ z.thrown THEN Raised
    ELSE IF parts[3] \notin DOMAIN name_to_rot THEN Rejected
    ELSE TryStructures(parts, [chunkX |-> x.val, chunkZ |-> z.val,
                               rotation |-> name_to_rot[parts[3]]])

ParseSplit(parts) ==
    IF Len(parts) < 4 THEN Rejected ELSE ParseParts(parts, stoi(parts[1]), stoi(parts[2]))

\* StructureRegistry::parse_line: an exception is caught and gives false
parse_line(line) == ParseSplit(SplitFrom(line, 1, << >>))

\* A loader that gives up at the first line it cannot parse
RECURSIVE StopAtMalformed(_, _, _, _)
StopAtMalformed(lines, i, constraints, warnings) ==
    IF i > Len(lines) THEN [constraints |-> constraints, warnings |-> warnings]
    ELSE IF parse_line(lines[i]).res = "true"
    THEN StopAtMalformed(lines, i + 1, Append(constraints, parse_line(lines[i]).c), warnings)
    ELSE [constraints |-> constraints, warnings |-> Append(warnings, i)]

RECURSIVE ParseLines(_, _, _, _)
\* for (const auto& l : lines) of load_constraints_from_file, from line i:
\* the constraints pushed and the line numbers warned about
ParseLines(lines, i, constraints, warnings) ==
    IF i > Len(lines) THEN [constraints |-> constraints, warnings |-> warnings]
    ELSE IF parse_line(lines[i]).res = "true"
    THEN ParseLines(lines, i + 1, Append(constraints, parse_line(lines[i]).c), warnings)
    ELSE ParseLines(lines, i + 1, constraints, Append(warnings, i))

RECURSIVE ReadLines(_, _, _)
\* while (std::getline(file, line)): trim, drop empty lines and comments
ReadKeep(raw, i, lines, line) ==
    IF line = "" \/ CharAt(line, 1) = "#" THEN ReadLines(raw, i + 1, lines)
    ELSE ReadLines(raw, i + 1, Append(lines, line))

ReadLines(raw, i, lines) ==
    IF i > Len(raw) THEN lines
    ELSE ReadKeep(raw, i, lines, Trim(raw[i], {" ", "\t", "\n", "\r"}))

\* The pillar seed of the last line: a line without a comma that std::stoll
\* converts entirely to a value in [0, 0xFFFFFFFF]
IsPillarseed(last_line, n) ==
    /\ find(last_line, ",", 1) = 0
    /\ ~n.thrown
    /\ n.pos = Len(last_line)
    /\ ~n.big
    /\ (n.negative => n.val = ZeroWord)

\* what load_constraints_from_file returns and leaves in its out-parameters
Loaded(parsed, pillarseed) ==
    [constraints |-> parsed.constraints, warnings |-> parsed.warnings,
     pillarseed |-> pillarseed,
     ok |-> (parsed.constraints # << >> \/ pillarseed # NoPillar)]

LoadLines(lines) ==
    IF lines # << >> /\ IsPillarseed(lines[Len(lines)], stoll(lines[Len(lines)]))
    THEN Loaded(ParseLines(SubSeq(lines, 1, Len(lines) - 1), 1, << >>, << >>),
                stoll(lines[Len(lines)]).val)
    ELSE Loaded(ParseLines(lines, 1, << >>, << >>), NoPillar)

\* load_constraints_from_file on an opened file, given as its raw lines
load_constraints_from_file(raw) == LoadLines(ReadLines(raw, 1, << >>))

(***************************************************************************)
(* Inputs.  Seeds and the pillar seed are written in decimal, in groups of *)
(* six digits.  A scenario is a parsed input file together with the part   *)
(* of the 2^20, 2^48 and 2^32 sized grids the model follows: the low-20    *)
(* values low20s the stage-1 threads are followed for, the probe seeds     *)
(* whose loop iterations and grid tasks the stage-2 threads are followed   *)
(* for, and the blocks (lower16s) and upper16 values of the pillar grid.   *)
(***************************************************************************)
Ship1 == [type |-> "SHIPWRECK", chunkX |-> -54, chunkZ |-> -14, rotation |-> 3,
          stype |-> "sideways_fronthalf", isBeached |-> FALSE]
\* the same region as Ship1, another chunk
Ship1Moved == [type |-> "SHIPWRECK", chunkX |-> -53, chunkZ |-> -14, rotation |-> 3,
               stype |-> "sideways_fronthalf", isBeached |-> FALSE]
PortalA == [type |-> "RUINED_PORTAL", chunkX |-> 43, chunkZ |-> 10, rotation |-> 3,
            mirror |-> 1, ptype |-> 5, category |-> 1]
VillageA == [type |-> "VILLAGE", chunkX |-> 49, chunkZ |-> -22, rotation |-> 2,
             piece |-> "taiga_meeting_point_1", vtype |-> "TAIGA", is_abandoned |-> FALSE]
\* what SeedR generates when its first x draw is rejected and redrawn
ShipR == [type |-> "SHIPWRECK", chunkX |-> 4, chunkZ |-> 13, rotation |-> 3,
          stype |-> "upsidedown_fronthalf_degraded", isBeached |-> FALSE]
\* what SeedQ generates (shipwreck with a redrawn x draw, and portal)
ShipQ == [type |-> "SHIPWRECK", chunkX |-> 2, chunkZ |-> 10, rotation |-> 3,
          stype |-> "sideways_fronthalf_degraded", isBeached |-> FALSE]
PortalQ == [type |-> "RUINED_PORTAL", chunkX |-> 47, chunkZ |-> 7, rotation |-> 2,
            mirror |-> 1, ptype |-> 2, category |-> 1]
\* what SeedP generates when its first x draw is rejected and redrawn
PortalP == [type |-> "RUINED_PORTAL", chunkX |-> 54, chunkZ |-> 4, rotation |-> 2,
            mirror |-> 0, ptype |-> 7, category |-> 1]

SeedA == Dec(<<163, 852095, 324161>>)  \* generates Ship1, PortalA and VillageA
SeedA2 == Dec(<<134, 26620, 829697>>)  \* generates Ship1
SeedA3 == Dec(<<77, 896642, 199556>>)  \* generates Ship1
SeedA4 == Dec(<<207, 267191, 324676>>) \* generates Ship1
SeedA5 == Dec(<<152, 445994, 926081>>) \* generates Ship1
SeedN == Dec(<<45, 32456, 323073>>)    \* Ship1's chunk, another shipwreck there
SeedB == Dec(<<69, 294045, 937512>>)   \* generates PortalA
SeedV == Dec(<<85, 482653, 939197>>)   \* generates VillageA
SeedV2 == Dec(<<9, 249764, 768496>>)   \* generates VillageA
SeedR == Dec(<<176, 403310, 511439>>)  \* generates ShipR, by a redraw
SeedQ == Dec(<<236, 366956, 693145>>)  \* generates ShipQ, by a redraw, and PortalQ
SeedP == Dec(<<201, 278629, 339294>>)  \* generates PortalP, by a redraw
SeedT == Dec(<<14, 686399, 499418>>)   \* PortalA's draws, the z-draw being 2147483635
PillarA == Dec(<<2882, 373768>>)       \* SeedA's low 32 bits in block 41222
PillarZero == ZeroWord

Low20(seed) == LowBits(seed, 20)

\* std::ifstream of a readable file with these lines, and of one that cannot
\* be opened
Opened(lines) == [is_open |-> TRUE, lines |-> lines]
NotOpen == [is_open |-> FALSE, lines |-> << >>]

Scenario(lines, low20s, probes, lower16s, upper16s) ==
    [file |-> Opened(lines), low20s |-> low20s, probes |-> probes,
     lower16s |-> lower16s, upper16s |-> upper16s]

StdScenario(lines, probes, others) ==
    Scenario(lines, {Low20(p) : p \in probes} \cup others, probes, {}, {})

ScenShip1 ==
    StdScenario(<< "# Shipwreck near spawn",
                   "-54, -14, COUNTERCLOCKWISE_90, sideways_fronthalf, Ocean" >>,
                {SeedA, SeedA2, SeedA3, SeedA4, SeedA5, SeedN}, {2})
ScenPortalA ==
    StdScenario(<< "43, 10, COUNTERCLOCKWISE_90, portal_6, yes, 1" >>, {SeedA, SeedB}, {})
ScenPortalVillage ==
    StdScenario(<< "43,10,COUNTERCLOCKWISE_90,portal_6,YES,1", "",
                   "49, -22, CLOCKWISE_180, taiga_meeting_point_1, 3" >>,
                {SeedA, SeedB}, {})
ScenVillageA ==
    StdScenario(<< "  49, -22, CLOCKWISE_180, taiga_meeting_point_1, 3, no\r" >>,
                {SeedA, SeedV, SeedV2}, {})
ScenShipPortal ==
    StdScenario(<< "-54,-14,COUNTERCLOCKWISE_90,sideways_fronthalf,ocean",
                   "\t43 ,10 ,COUNTERCLOCKWISE_90 ,portal_6 ,Yes ,1" >>,
                {SeedA, SeedA2}, {2})
\* Eleven shipwrecks; 10 is a low-20-bit value whose x-draw bits match and
\* whose z-draw bits do not
ScenEleven ==
    StdScenario([i \in 1..11 |-> "-54, -14, COUNTERCLOCKWISE_90, sideways_fronthalf, Ocean"],
                {SeedA, SeedN}, {10})
ScenClash ==
    StdScenario(<< "-54, -14, COUNTERCLOCKWISE_90, sideways_fronthalf, Ocean",
                   "-53, -14, COUNTERCLOCKWISE_90, sideways_fronthalf, Ocean" >>,
                {SeedA, SeedA3}, {})
ScenShipR ==
    StdScenario(<< "4, 13, COUNTERCLOCKWISE_90, upsidedown_fronthalf_degraded, Ocean" >>,
                {SeedR}, {})
ScenPortalP ==
    StdScenario(<< "54, 4, CLOCKWISE_180, portal_8, no, 1" >>, {SeedP}, {})
ScenShipPortalQ ==
    StdScenario(<< "2, 10, COUNTERCLOCKWISE_90, sideways_fronthalf_degraded, Ocean",
                   "47, 7, CLOCKWISE_180, portal_3, yes, 1" >>, {SeedQ}, {})
\* PortalA and a seed at the last iteration of the portal loop
ScenPortalTop ==
    StdScenario(<< "43, 10, COUNTERCLOCKWISE_90, portal_6, yes, 1" >>, {SeedT}, {})
ScenPillarA ==
    Scenario(<< "49, -22, CLOCKWISE_180, taiga_meeting_point_1, 3, no", "2882373768" >>,
             {}, {}, {41222, 7}, {38149, 5})
\* ScenPillarA with the pillar seed's high 16 bits cleared: 0xABCD8888 -> 0x8888
ScenPillarLow ==
    Scenario(<< "49, -22, CLOCKWISE_180, taiga_meeting_point_1, 3, no", "34952" >>,
             {}, {}, {41222, 7}, {38149, 5})
ScenPillarZero ==
    Scenario(<< "-54, -14, COUNTERCLOCKWISE_90, sideways_fronthalf, Ocean", "0" >>,
             {}, {}, {0, 7}, {38149})
ScenPillarOnly == Scenario(<< "# pillar seed", "2882373768" >>, {}, {}, {41222}, {38149})
ScenEmpty == Scenario(<< "# nothing yet", "", "   " >>, {}, {}, {}, {})
ScenNotOpen == [Scenario(<< >>, {}, {}, {}, {}) EXCEPT !.file = NotOpen]

\* PortalA and VillageA between lines that no parser accepts: text, a number
\* that is not the last line, a bad mirror flag, a category that is not a
\* number, a lower-case rotation, a chunk beyond int, a biome id out of range,
\* a village line with a seventh field, and a last line that is not a number.
ScenMalformed ==
    StdScenario(<< "ruined portal", "2882373768",
                   "43, 10, COUNTERCLOCKWISE_90, portal_6, yes, 1",
                   "43, 10, COUNTERCLOCKWISE_90, portal_6, maybe, 1",
                   "43, 10, COUNTERCLOCKWISE_90, portal_6, yes, one",
                   "43, 10, counterclockwise_90, portal_6, yes, 1",
                   "99999999999, 10, COUNTERCLOCKWISE_90, portal_6, yes, 1",
                   "49, -22, CLOCKWISE_180, taiga_meeting_point_1, 3, no",
                   "49, -22, CLOCKWISE_180, taiga_meeting_point_1, 6, no",
                   "49, -22, CLOCKWISE_180, taiga_meeting_point_1, 3, no, 1",
                   "12x" >>,
                {SeedA, SeedB}, {})
\* Nothing usable: the last line is 2^32, one above the largest pillar seed
ScenOnlyMalformed ==
    Scenario(<< "-54, -14, COUNTERCLOCKWISE_90, sideways, Ocean", "49, -22",
                "4294967296" >>, {}, {}, {}, {})
\* A pillar seed (the largest) after lines that no parser accepts
ScenPillarMalformed ==
    Scenario(<< "49, -22, CLOCKWISE_180, taiga_meeting_point_1, three",
                "-54, , COUNTERCLOCKWISE_90, sideways_fronthalf, Ocean",
                "4294967295" >>, {}, {}, {41222}, {38149})

Scenarios ==
    { ScenShip1, ScenPortalA, ScenPortalVillage, ScenVillageA, ScenShipPortal, ScenEleven, ScenClash,
      ScenShipR, ScenPortalP, ScenShipPortalQ, ScenPortalTop, ScenPillarA, ScenPillarLow,
      ScenPillarZero,
      ScenPillarOnly, ScenEmpty, ScenNotOpen, ScenMalformed, ScenOnlyMalformed,
      ScenPillarMalformed }

(***************************************************************************)
(* The host and the device                                                 *)
(***************************************************************************)
\* Slots of the output array.  The program allocates 20000000; the model
\* allocates this many, so that a search can fill the array.
results_buffer_size == 2

\* Values of an unsigned int counter.  The program's counters have 2^32; the
\* model's have this many, so that a search can run a counter round.  Every
\* scenario samples fewer low-20-bit values than this, as 2^20 is below 2^32.
CounterRange == 4

\* The output file not written: a value no list of seeds equals
NoFile == << << -1 >> >>
NotExited == -1

\* threads_per_block of PillarseedSearch::execute
PillarThreads == 256

\* gridDim.x * blockDim.x of run_stage2_bruteforce
BruteStride == 32768 * 256

RECURSIVE SortedInts(_)
\* The elements of a finite set of integers, ascending
SortedInts(S) ==
    IF S = {} THEN << >>
    ELSE LET m == CHOOSE x \in S : \A y \in S : x <= y
         IN  <<m>> \o SortedInts(S \ {m})

RECURSIVE InsertSorted(_, _)
InsertSorted(w, sorted) ==
    IF sorted = << >> THEN <<w>>
    ELSE IF WordLess(Head(sorted), w) THEN <<Head(sorted)>> \o InsertSorted(w, Tail(sorted))
    ELSE <<w>> \o sorted

\* A driver that writes the seeds in the order of the array
KeepOrder(seq) == seq

RECURSIVE SortSeeds(_)
\* std::sort(h_found_seeds.begin(), h_found_seeds.end())
SortSeeds(seq) ==
    IF seq = << >> THEN << >> ELSE InsertSorted(Head(seq), SortSeeds(Tail(seq)))

Task(thread, ord, x, y, z) == [thread |-> thread, ord |-> ord, x |-> x, y |-> y, z |-> z]

\* One thread per low-20-bit value: blockIdx.x * blockDim.x + threadIdx.x
FilterTasks == { Task(<<l>>, 0, l, 0, 0) : l \in sample.low20s }

\* The state after two LCG steps from the region seed of a full seed
RegionState2(seed, chunkX, chunkZ, spacing, salt) ==
    LcgStep(LcgStep(setRegionSeed(seed, floorDiv(chunkX, spacing),
                                  floorDiv(chunkZ, spacing), salt)))

Max(a, b) == IF a >= b THEN a ELSE b

\* The iteration of the portal loop at or just below the second draw of probe p
ProbeM(anchor, lower20, p) ==
    Max(0, (ShrInt(RegionState2(p, anchor.chunkX, anchor.chunkZ, PORTAL_SPACING,
                                RUINED_PORTAL_SALT), 17)
            - PortalBBase(anchor, lower20)) \div 200)

\* The iteration of the shipwreck inner loop at or just below probe p's state
ProbeJ(anchor, p) ==
    ShrInt(RegionState2(p, anchor.chunkX, anchor.chunkZ, SHIPWRECK_SPACING,
                        SHIPWRECK_SALT), 20) \div 5

\* One thread per index of the low-20 list; the thread's iterations followed
\* are those next to the probes that share its low 20 bits.
ProbesOf(lower20) == { q \in sample.probes : Low20(q) = lower20 }

ReverseTasks(anchor, list) ==
    IF anchor.type = "RUINED_PORTAL"
    THEN UNION { { Task(<<i>>, ProbeM(anchor, list[i], p), i, ProbeM(anchor, list[i], p), 0) :
                     p \in ProbesOf(list[i]) } : i \in 1..Len(list) }
    ELSE UNION { { Task(<<i>>, ProbeJ(anchor, pu[1]), i, ProbeJ(anchor, pu[1]), pu[2]) :
                     pu \in ProbesOf(list[i]) \X ShipTestU(anchor, list[i]) } :
                 i \in 1..Len(list) }

\* An index that leaves out the position in the list
GlobalIdxUpperOnly(lower20_idx, upper28_bits) == upper28_bits

\* global_idx of the task (lower20_idx, upper28_bits), lower20_idx from 0
GlobalIdx(lower20_idx, upper28_bits) == lower20_idx * Pow2(28) + upper28_bits

\* The grid-stride loop: thread global_idx % stride takes global_idx
BruteTasks(list) ==
    { Task(<<GlobalIdx(i - 1, ShrInt(p, 20)) % BruteStride>>,
           GlobalIdx(i - 1, ShrInt(p, 20)), i, ShrInt(p, 20), 0) :
        i \in 1..Len(list), p \in sample.probes }

\* Block lowerbits, thread upper16 % blockDim.x, upper16 ascending
PillarTasks ==
    { Task(<<lo, up % PillarThreads>>, up, lo, up, 0) :
        lo \in sample.lower16s, up \in sample.upper16s }

\* A thread runs its own work in order and is busy while it holds an index.
Runnable(t) ==
    /\ t \in tasks
    /\ ~deviceFault
    /\ \A u \in tasks : u.thread = t.thread => u.ord >= t.ord
    /\ \A h \in holding : h.thread # t.thread

\* A synchronization that waits for the threads' loops but not for the stores
\* of the threads that hold an index
KernelDoneLoopsOnly == tasks = {}

\* cudaDeviceSynchronize returns: no thread has work left
KernelDone == tasks = {} /\ holding = {}

\* atomicAdd(counter, 1) on an unsigned int: the value before, and the
\* counter after.
atomicAdd(counter) == [old |-> counter, new |-> (counter + 1) % CounterRange]

Shipwrecks(cs) == SelectSeq(cs, LAMBDA c : c.type = "SHIPWRECK")

has_reversible_anchor(cs) ==
    \E i \in 1..Len(cs) : cs[i].type = "RUINED_PORTAL" \/ cs[i].type = "SHIPWRECK"

use_reversing(cs) == has_reversible_anchor(cs) /\ Len(cs) >= 1 /\ Len(cs) <= 10

\* An anchor search that takes the first shipwreck or portal, whichever it is
FirstReversible(cs) ==
    CHOOSE i \in 1..Len(cs) :
        /\ cs[i].type \in {"RUINED_PORTAL", "SHIPWRECK"}
        /\ \A k \in 1..(i - 1) : cs[k].type \notin {"RUINED_PORTAL", "SHIPWRECK"}

\* anchor_idx of run_stage2_reversing, from 1
AnchorIdx(cs) ==
    IF \E i \in 1..Len(cs) : cs[i].type = "RUINED_PORTAL"
    THEN CHOOSE i \in 1..Len(cs) :
            /\ cs[i].type = "RUINED_PORTAL"
            /\ \A k \in 1..(i - 1) : cs[k].type # "RUINED_PORTAL"
    ELSE CHOOSE i \in 1..Len(cs) :
            /\ cs[i].type = "SHIPWRECK"
            /\ \A k \in 1..(i - 1) : cs[k].type # "SHIPWRECK"

\* h_validators of run_stage2_reversing
Validators(cs) ==
    LET a == AnchorIdx(cs)
    IN  [k \in 1..(Len(cs) - 1) |-> IF k < a THEN cs[k] ELSE cs[k + 1]]

\* The RNG object of the second specification: its seed field, the number of
\* calls made on it, whether one of them has written the seed, and the last
\* call with its argument, the seed before it and what it returned (ret for
\* an int32, long for nextLong's int64).
Lab(rand, calls, written, op, arg, before, ret, long) ==
    [rand |-> rand, calls |-> calls, written |-> written, op |-> op, arg |-> arg,
     before |-> before, ret |-> ret, long |-> long]

NoLab == Lab(Uninit, 0, FALSE, "none", 0, Uninit, 0, ZeroWord)

\* main before its first statement, on the input of scenario sc
Started(sc) ==
    /\ sample = [low20s |-> sc.low20s, probes |-> sc.probes,
                 lower16s |-> sc.lower16s, upper16s |-> sc.upper16s]
    /\ file = sc.file
    /\ warned_lines = << >>
    /\ h_all_constraints = << >>
    /\ h_pillarseed = NoPillar
    /\ pc = "start"
    /\ kernel = "none"
    /\ tasks = {}
    /\ holding = {}
    /\ d_lower20_results = << >>
    /\ d_lower20_count = 0
    /\ d_valid_lower20bits = << >>
    /\ lower20_count = 0
    /\ d_anchor = Uninit
    /\ d_validators = << >>
    /\ d_found_seeds = [i \in 1..results_buffer_size |-> Uninit]
    /\ d_found_count = 0
    /\ rands = [k \in {} |-> Uninit]
    /\ deviceFault = FALSE
    /\ warned = FALSE
    /\ outfile = NoFile
    /\ exit_code = NotExited
    /\ launched = << >>
    /\ examined = {}
    /\ visits = [k \in {} |-> 0]
    /\ stored = << >>

Init ==
    /\ overflowWraps \in BOOLEAN
    /\ \E sc \in Scenarios : Started(sc)
    /\ lab = NoLab

hostVars == << pc, d_valid_lower20bits, lower20_count, d_anchor, d_validators, warned,
              outfile, exit_code >>
inputVars == << overflowWraps, sample, file, warned_lines, h_all_constraints, h_pillarseed,
               lab >>
filterVars == << d_lower20_results, d_lower20_count >>
foundVars == << d_found_seeds, d_found_count, rands, examined, visits, stored >>

\* main: the call of load_constraints_from_file.  A file that cannot be opened
\* leaves the list empty and h_pillarseed at -1.
LoadFile ==
    /\ pc = "start"
    /\ IF ~file.is_open
       THEN UNCHANGED << h_all_constraints, h_pillarseed, warned_lines >>
       ELSE /\ h_all_constraints' = load_constraints_from_file(file.lines).constraints
            /\ h_pillarseed' = load_constraints_from_file(file.lines).pillarseed
            /\ warned_lines' = load_constraints_from_file(file.lines).warnings
    /\ pc' = "loaded"
    /\ UNCHANGED << overflowWraps, sample, file, lab, kernel, tasks, holding, filterVars,
                    foundVars, deviceFault, d_valid_lower20bits, lower20_count, d_anchor, d_validators,
                    warned, outfile, exit_code, launched >>

\* main: load_constraints_from_file returned false
ExitNoInput ==
    /\ pc = "loaded"
    /\ h_all_constraints = << >> /\ h_pillarseed = NoPillar
    /\ pc' = "exit" /\ exit_code' = 1
    /\ UNCHANGED << inputVars, kernel, tasks, holding, filterVars, foundVars, deviceFault,
                    d_valid_lower20bits, lower20_count, d_anchor, d_validators,
                    warned, outfile, launched >>

\* A main that runs the pillarseed search on an empty constraint list
PillarWithoutConstraints ==
    /\ pc = "loaded"
    /\ h_pillarseed # NoPillar /\ h_all_constraints = << >>
    /\ kernel' = "pillar"
    /\ tasks' = PillarTasks
    /\ launched' = Append(launched, "pillar")
    /\ pc' = "sync"
    /\ UNCHANGED << inputVars, holding, filterVars, foundVars, deviceFault,
                    d_valid_lower20bits, lower20_count, d_anchor, d_validators,
                    warned, outfile, exit_code >>

\* main: the PillarseedSearch constructor throws on an empty constraint list
ExitStrategyInit ==
    /\ pc = "loaded"
    /\ h_pillarseed # NoPillar /\ h_all_constraints = << >>
    /\ pc' = "exit" /\ exit_code' = 1
    /\ UNCHANGED << inputVars, kernel, tasks, holding, filterVars, foundVars, deviceFault,
                    d_valid_lower20bits, lower20_count, d_anchor, d_validators,
                    warned, outfile, launched >>

\* main: PillarseedSearch::execute
LaunchPillarseed ==
    /\ pc = "loaded"
    /\ h_pillarseed # NoPillar /\ h_all_constraints # << >>
    /\ kernel' = "pillar"
    /\ tasks' = PillarTasks
    /\ launched' = Append(launched, "pillar")
    /\ pc' = "sync"
    /\ UNCHANGED << inputVars, holding, filterVars, foundVars, deviceFault,
                    d_valid_lower20bits, lower20_count, d_anchor, d_validators,
                    warned, outfile, exit_code >>

\* StandardSearch::execute, run_stage1 with a shipwreck: the filter kernel is launched
Stage1LaunchFilter ==
    /\ pc = "loaded"
    /\ h_pillarseed = NoPillar /\ h_all_constraints # << >>
    /\ Shipwrecks(h_all_constraints) # << >>
    /\ kernel' = "filter"
    /\ tasks' = FilterTasks
    /\ d_lower20_results' = [i \in 1..Cardinality(sample.low20s) |-> Uninit]
    /\ d_lower20_count' = 0
    /\ launched' = launched \o << "stage1", "filter" >>
    /\ pc' = "stage1_copy"
    /\ UNCHANGED << inputVars, holding, foundVars, deviceFault,
                    d_valid_lower20bits, lower20_count, d_anchor, d_validators,
                    warned, outfile, exit_code >>

\* run_stage1 without a shipwreck: std::iota over all low-20-bit values
Stage1AllCandidates ==
    /\ pc = "loaded"
    /\ h_pillarseed = NoPillar /\ h_all_constraints # << >>
    /\ Shipwrecks(h_all_constraints) = << >>
    /\ lower20_count' = Cardinality(sample.low20s)
    /\ d_valid_lower20bits' = SortedInts(sample.low20s)
    /\ launched' = Append(launched, "stage1")
    /\ pc' = "stage2"
    /\ UNCHANGED << inputVars, kernel, tasks, holding, filterVars, foundVars, deviceFault,
                    d_anchor, d_validators, warned, outfile, exit_code >>

\* run_stage1: copy_to_host of the count waits for the kernel; then the
\* survivors are copied out of the result buffer
Stage1Collect ==
    /\ pc = "stage1_copy"
    /\ KernelDone
    /\ lower20_count' = d_lower20_count
    /\ d_valid_lower20bits' =
          IF d_lower20_count > 0 THEN SubSeq(d_lower20_results, 1, d_lower20_count)
          ELSE d_valid_lower20bits
    /\ pc' = "stage2"
    /\ UNCHANGED << inputVars, kernel, tasks, holding, filterVars, foundVars, deviceFault,
                    d_anchor, d_validators, warned, outfile, exit_code, launched >>

\* execute: "No seed candidates found in Stage 1. Exiting."
Stage2Skipped ==
    /\ pc = "stage2"
    /\ lower20_count = 0
    /\ pc' = "sync"
    /\ UNCHANGED << inputVars, kernel, tasks, holding, filterVars, foundVars, deviceFault,
                    d_valid_lower20bits, lower20_count, d_anchor, d_validators,
                    warned, outfile, exit_code, launched >>

\* execute, run_stage2_reversing
LaunchReversing ==
    /\ pc = "stage2"
    /\ lower20_count # 0
    /\ use_reversing(h_all_constraints)
    /\ d_anchor' = h_all_constraints[AnchorIdx(h_all_constraints)]
    /\ d_validators' = Validators(h_all_constraints)
    /\ kernel' = "reverse"
    /\ tasks' = ReverseTasks(h_all_constraints[AnchorIdx(h_all_constraints)],
                             d_valid_lower20bits)
    /\ launched' = Append(launched, "reverse")
    /\ pc' = "sync"
    /\ UNCHANGED << inputVars, holding, filterVars, foundVars, deviceFault,
                    d_valid_lower20bits, lower20_count, warned, outfile, exit_code >>

\* execute, run_stage2_bruteforce
LaunchBruteforce ==
    /\ pc = "stage2"
    /\ lower20_count # 0
    /\ ~use_reversing(h_all_constraints)
    /\ kernel' = "brute"
    /\ tasks' = BruteTasks(d_valid_lower20bits)
    /\ launched' = Append(launched, "brute")
    /\ pc' = "sync"
    /\ UNCHANGED << inputVars, holding, filterVars, foundVars, deviceFault,
                    d_valid_lower20bits, lower20_count, d_anchor, d_validators,
                    warned, outfile, exit_code >>

Holding(thread, buf, idx, val) == [thread |-> thread, buf |-> buf, idx |-> idx, val |-> val]

\* findLower20BitSeeds_kernel, up to and including the atomicAdd
FilterThread(t) ==
    /\ kernel = "filter"
    /\ Runnable(t)
    /\ tasks' = tasks \ {t}
    /\ IF FilterPasses(t.x, Shipwrecks(h_all_constraints))
       THEN /\ d_lower20_count' = atomicAdd(d_lower20_count).new
            /\ holding' = holding \cup
                  {Holding(t.thread, "low20", atomicAdd(d_lower20_count).old, t.x)}
       ELSE UNCHANGED << d_lower20_count, holding >>
    /\ UNCHANGED << inputVars, hostVars, kernel, d_lower20_results, foundVars,
                    deviceFault, launched >>

\* findLower20BitSeeds_kernel: d_results[index] = lower20bits
FilterStore(h) ==
    /\ h \in holding /\ h.buf = "low20"
    /\ d_lower20_results' = [d_lower20_results EXCEPT ![h.idx + 1] = h.val]
    /\ holding' = holding \ {h}
    /\ UNCHANGED << inputVars, hostVars, kernel, tasks, d_lower20_count, foundVars,
                    deviceFault, launched >>

\* The RNG object of a kernel thread is declared without a value, once, before
\* the thread's loop; every verifier seeds it before drawing from it.
ThreadRand == Uninit

\* StandaloneChunkRand rand of the thread, as its earlier iterations left it
RandOf(thread) == IF thread \in DOMAIN rands THEN rands[thread] ELSE ThreadRand

\* A candidate that was not handed to the verifiers leaves the RNG alone
Skipped(rand) == Verdict(FALSE, rand)

\* A stage-2 thread is done with candidate cand, v being the verifiers'
\* verdict; on a hit it takes its index from the hit counter.
Examine(t, cand, v) ==
    /\ tasks' = tasks \ {t}
    /\ rands' = [k \in DOMAIN rands \cup {t.thread} |->
                    IF k = t.thread THEN v.rand ELSE rands[k]]
    /\ examined' = IF cand = NoSeed THEN examined ELSE examined \cup {cand}
    /\ visits' = [k \in DOMAIN visits \cup {<<t.x, t.y, t.z>>} |->
                     IF k \in DOMAIN visits
                     THEN visits[k] + (IF k = <<t.x, t.y, t.z>> THEN 1 ELSE 0)
                     ELSE 1]
    /\ IF v.ok
       THEN /\ d_found_count' = atomicAdd(d_found_count).new
            /\ holding' = holding \cup
                  {Holding(t.thread, "found", atomicAdd(d_found_count).old, cand)}
            /\ stored' = Append(stored, [idx |-> atomicAdd(d_found_count).old,
                                         seed |-> cand, thread |-> t.thread])
       ELSE UNCHANGED << d_found_count, holding, stored >>
    /\ UNCHANGED << inputVars, hostVars, kernel, filterVars, d_found_seeds,
                    deviceFault, launched >>

\* The candidate of one iteration of reverseAndCheck_kernel
ReverseCandidate(anchor, lower20bit_seed, t) ==
    IF anchor.type = "RUINED_PORTAL" THEN PortalCandidate(anchor, lower20bit_seed, t.y)
    ELSE ShipCandidate(anchor, lower20bit_seed, t.z, t.y)

\* reverseAndCheck_kernel: one iteration of the thread's loop
ReverseThread(t) ==
    /\ kernel = "reverse"
    /\ Runnable(t)
    /\ LET cand == ReverseCandidate(d_anchor, d_valid_lower20bits[t.x], t)
       IN  Examine(t, cand,
                   IF cand = NoSeed THEN Skipped(RandOf(t.thread))
                   ELSE AnchorAndValidators(cand, d_anchor, d_validators, RandOf(t.thread)))

\* bruteforceStructureSeeds_kernel: one turn of the grid-stride loop
BruteThread(t) ==
    /\ kernel = "brute"
    /\ Runnable(t)
    /\ LET cand == BruteCandidate(t.y, d_valid_lower20bits[t.x])
       IN  Examine(t, cand, check_all(cand, h_all_constraints, 1, RandOf(t.thread)))

\* pillarseedSearch_kernel: one turn of the upper16 loop
PillarThread(t) ==
    /\ kernel = "pillar"
    /\ Runnable(t)
    /\ LET cand == PillarCandidate(h_pillarseed, t.x, t.y)
       IN  Examine(t, cand, check_all(cand, h_all_constraints, 1, RandOf(t.thread)))

\* d_found_seeds[result_idx] = candidateSeed, result_idx inside the array
StoreSeed(h) ==
    /\ h \in holding /\ h.buf = "found"
    /\ ~deviceFault
    /\ h.idx < results_buffer_size
    /\ d_found_seeds' = [d_found_seeds EXCEPT ![h.idx + 1] = h.val]
    /\ holding' = holding \ {h}
    /\ UNCHANGED << inputVars, hostVars, kernel, tasks, filterVars, d_found_count,
                    rands, examined, visits, stored, deviceFault, launched >>

\* The same store with result_idx past the end of the array: undefined.  The
\* write lands in memory the program does not look at again ...
StoreOutOfBounds(h) ==
    /\ h \in holding /\ h.buf = "found"
    /\ ~deviceFault
    /\ h.idx >= results_buffer_size
    /\ holding' = holding \ {h}
    /\ UNCHANGED << inputVars, hostVars, kernel, tasks, filterVars, foundVars,
                    deviceFault, launched >>

\* ... or the device raises an illegal-address error, which ends the kernel
\* and stays pending until the host's next CUDA call.
StoreFaults(h) ==
    /\ h \in holding /\ h.buf = "found"
    /\ ~deviceFault
    /\ h.idx >= results_buffer_size
    /\ deviceFault' = TRUE
    /\ holding' = holding \ {h}
    /\ UNCHANGED << inputVars, hostVars, kernel, tasks, filterVars, foundVars, launched >>

\* main: CUDA_CHECK(cudaDeviceSynchronize()) reports the pending error
FinishDeviceError ==
    /\ pc = "sync"
    /\ deviceFault
    /\ pc' = "exit" /\ exit_code' = 1
    /\ UNCHANGED << inputVars, kernel, tasks, holding, filterVars, foundVars, deviceFault,
                    d_valid_lower20bits, lower20_count, d_anchor, d_validators,
                    warned, outfile, launched >>

\* A main that opens found_seeds.txt before it looks at the hit count
FinishNoSeedsTruncates ==
    /\ pc = "sync"
    /\ ~deviceFault /\ KernelDone
    /\ d_found_count = 0
    /\ outfile' = << >>
    /\ pc' = "exit" /\ exit_code' = 0
    /\ UNCHANGED << inputVars, kernel, tasks, holding, filterVars, foundVars, deviceFault,
                    d_valid_lower20bits, lower20_count, d_anchor, d_validators,
                    warned, launched >>

\* main: "No structure seeds found."
FinishNoSeeds ==
    /\ pc = "sync"
    /\ ~deviceFault /\ KernelDone
    /\ d_found_count = 0
    /\ pc' = "exit" /\ exit_code' = 0
    /\ UNCHANGED << inputVars, kernel, tasks, holding, filterVars, foundVars, deviceFault,
                    d_valid_lower20bits, lower20_count, d_anchor, d_validators,
                    warned, outfile, launched >>

Min(a, b) == IF a <= b THEN a ELSE b

\* main: the hit count is clamped to the buffer size, the seeds are copied
\* back, sorted and written
FinishWrite ==
    /\ pc = "sync"
    /\ ~deviceFault /\ KernelDone
    /\ d_found_count # 0
    /\ warned' = (d_found_count > results_buffer_size)
    /\ outfile' = SortSeeds(SubSeq(d_found_seeds, 1,
                                   Min(d_found_count, results_buffer_size)))
    /\ pc' = "exit" /\ exit_code' = 0
    /\ UNCHANGED << inputVars, kernel, tasks, holding, filterVars, foundVars, deviceFault,
                    d_valid_lower20bits, lower20_count, d_anchor, d_validators, launched >>

Next ==
    \/ LoadFile
    \/ ExitNoInput
    \/ ExitStrategyInit
    \/ LaunchPillarseed
    \/ Stage1LaunchFilter
    \/ Stage1AllCandidates
    \/ Stage1Collect
    \/ Stage2Skipped
    \/ LaunchReversing
    \/ LaunchBruteforce
    \/ \E t \in tasks : FilterThread(t)
    \/ \E h \in holding : FilterStore(h)
    \/ \E t \in tasks : ReverseThread(t)
    \/ \E t \in tasks : BruteThread(t)
    \/ \E t \in tasks : PillarThread(t)
    \/ \E h \in holding : StoreSeed(h)
    \/ \E h \in holding : StoreOutOfBounds(h)
    \/ \E h \in holding : StoreFaults(h)
    \/ FinishDeviceError
    \/ FinishNoSeeds
    \/ FinishWrite

Spec == Init /\ [][Next]_vars


(***************************************************************************)
(* StandaloneChunkRand on its own.  The second specification calls the     *)
(* methods of one RNG object in every order, with arguments from all over  *)
(* their types; main stands still.  An int64 argument is a word of six     *)
(* limbs (the sixth holds bits 60 .. 63).                                   *)
(***************************************************************************)
\* Calls made on the object in one behaviour
MaxCalls == 3

mainVars == << sample, file, warned_lines, h_all_constraints, h_pillarseed, hostVars, kernel,
              tasks, holding, filterVars, foundVars, deviceFault, launched >>

\* The int64 argument after whose setSeed the next 31 bits drawn are 2^31 - 1
TopDrawSeed == Xor48(LcgBack(<<0, 4095, 4095, 4095>>), XOR_MASK) \o <<0, 0>>

\* int64 values: -1, INT64_MIN, a value with bits on both sides of bit 47, and
\* TopDrawSeed
Int64Args ==
    { <<4095, 4095, 4095, 4095, 4095, 15>>, <<0, 0, 0, 0, 0, 8>>, <<1, 0, 2048, 2048, 1, 0>>,
      TopDrawSeed }

\* What the seed field of an object declared without a value may hold
Garbage == { <<4095, 4095, 4095, 4095, 4095, 15>>, <<77, 0, 0, 4095, 3, 7>> }

\* 2 and 4: the village rotation draw and the nextInt it stands for
BitsArgs == {1, 2, 31, 32}
BoundArgs == {-7, 0, 4, 16, 25}
\* (seed, region or chunk x, region or chunk z, salt), INT32_MIN among the coordinates
PlaceArgs ==
    { << <<4095, 4095, 4095, 4095, 4095, 15>>, -2147483647 - 1, 2147483647, SHIPWRECK_SALT >>,
      << <<1, 0, 2048, 2048, 1, 0>>, -4, 3, <<0, 0, 0, 0, 0, 8>> >> }

RngInit ==
    /\ overflowWraps \in BOOLEAN
    /\ Started(ScenNotOpen)
    /\ \E g \in Garbage : lab = Lab(g, 0, FALSE, "none", 0, g, 0, ZeroWord)

\* A call that returns nothing and leaves the seed s
VoidCall(op, s) ==
    /\ lab.calls < MaxCalls
    /\ lab' = Lab(s, lab.calls + 1, TRUE, op, 0, lab.rand, 0, ZeroWord)
    /\ UNCHANGED << overflowWraps, mainVars >>

\* A call with argument arg that returns the int32 r.val and leaves the seed
\* r.seed, having written it or not
IntCall(op, arg, r, wrote) ==
    /\ lab.calls < MaxCalls
    /\ lab' = Lab(r.seed, lab.calls + 1, lab.written \/ wrote, op, arg, lab.rand, r.val,
                  ZeroWord)
    /\ UNCHANGED << overflowWraps, mainVars >>

CallSetSeed == \E s \in Int64Args : VoidCall("setSeed", setSeed(s))

CallNext == \E bits \in BitsArgs : IntCall("next", bits, next(lab.rand, bits), TRUE)

\* nextInt returns at once, without a call of next, when bound <= 0
CallNextInt ==
    \E bound \in BoundArgs : IntCall("nextInt", bound, nextInt(lab.rand, bound), bound > 0)

CallNextFloat == IntCall("nextFloat", 0, nextFloat(lab.rand), TRUE)

CallNextLong ==
    /\ lab.calls < MaxCalls
    /\ lab' = Lab(nextLong(lab.rand).seed, lab.calls + 1, TRUE, "nextLong", 0, lab.rand, 0,
                  nextLong(lab.rand).val)
    /\ UNCHANGED << overflowWraps, mainVars >>

CallSetRegionSeed ==
    \E a \in PlaceArgs : VoidCall("setRegionSeed", setRegionSeed(a[1], a[2], a[3], a[4]))

CallSetCarverSeed ==
    \E a \in PlaceArgs : VoidCall("setCarverSeed", setCarverSeed(a[1], a[2], a[3]))

RngNext ==
    \/ CallSetSeed
    \/ CallNext
    \/ CallNextInt
    \/ CallNextFloat
    \/ CallNextLong
    \/ CallSetRegionSeed
    \/ CallSetCarverSeed

RngSpec == RngInit /\ [][RngNext]_vars

(***************************************************************************)
(* The third specification: the host blocked in cudaDeviceSynchronize and  *)
(* the threads of the kernel it waits for.  A thread is followed through   *)
(* the last iterations of its enumeration loop; the body of an iteration   *)
(* is the nextInt call of a verifier, one turn of its do-while at a time.  *)
(* lab holds the host's position and the threads.                          *)
(***************************************************************************)
\* Iterations each thread is followed for before its loop is left
LoopRoom == 2

WorkerIds == {1, 2}

\* A thread in a loop: the loop variable i, the iterations n followed so
\* far, where it is (at the loop test, in nextInt's do-while, or returned),
\* its RNG seed, and whether nextInt has drawn again
Worker(loop, base, i) ==
    [loop |-> loop, base |-> base, i |-> i, n |-> 0, at |-> "test", seed |-> ZeroWord,
     redrawn |-> FALSE]

\* reverseAndCheck_kernel, portal anchor: the thread with this B_base, at
\* the m that is LoopRoom iterations before the break
PortalWorker(B_base) ==
    Worker("portal", B_base, (2147483647 - B_base) \div 200 + 1 - LoopRoom)

\* reverseAndCheck_kernel, shipwreck anchor: the inner loop of test_u
ShipWorker(test_u) == Worker("ship", test_u, (Pow2(28) - test_u + 4) \div 5 - LoopRoom)

\* pillarseedSearch_kernel: upper16 runs over threadIdx.x + k * blockDim.x
PillarWorker(threadIdx) ==
    Worker("pillar", threadIdx, 65536 + threadIdx - PillarThreads * LoopRoom)

\* bruteforceStructureSeeds_kernel: base is total_tasks, global_idx runs
\* over thread_id + k * stride
BruteWorker(thread_id, num_valid_lower20bits) ==
    Worker("brute", num_valid_lower20bits * Pow2(28),
           num_valid_lower20bits * Pow2(28) + thread_id - BruteStride * LoopRoom)

\* findLower20BitSeeds_kernel: base is num_constraints, i runs from 0
FilterWorker(num_constraints) == Worker("filter", num_constraints, 0)

Waiting(kernel_name, workers) ==
    [host |-> "waiting", kernel |-> kernel_name, workers |-> workers]

\* The kernels waited for: both ends of the range of B_base and the two
\* values on either side of the m at which 200 * m + B_base passes 2^31;
\* the first and last test_u, threadIdx.x and thread_id
Kernels ==
    { Waiting("reverse", << PortalWorker(0), PortalWorker(199) >>),
      Waiting("reverse", << PortalWorker(47), PortalWorker(48) >>),
      Waiting("reverse", << ShipWorker(0), ShipWorker(4) >>),
      Waiting("pillar", << PillarWorker(0), PillarWorker(PillarThreads - 1) >>),
      Waiting("brute", << BruteWorker(0, 1), BruteWorker(BruteStride - 1, 1) >>),
      Waiting("filter", << FilterWorker(LoopRoom), FilterWorker(LoopRoom) >>) }

\* The seeds a verifier's setRegionSeed leaves: one whose next 31 bits are
\* 2^31 - 1, which nextInt draws again for 20, 25 and 26, and one whose
\* first draw is kept
DrawSeeds == { LcgBack(<<0, 4095, 4095, 4095>>), SeedA }

FairInit ==
    /\ overflowWraps \in BOOLEAN
    /\ Started(ScenNotOpen)
    /\ lab \in Kernels

\* The test that ends the loop of w
LoopBreaks(w) ==
    CASE w.loop = "portal" -> PortalBreaks(w.base, w.i)
      [] w.loop = "ship" -> ShipBreaks(w.base, w.i)
      [] w.loop = "pillar" -> ~(w.i < 65536)
      [] w.loop = "brute" -> ~(w.i < w.base)
      [] w.loop = "filter" -> ~(w.i < w.base)

\* ++m, j++, upper16 += blockDim.x, global_idx += stride, ++i
LoopAdvance(w) ==
    CASE w.loop = "pillar" -> w.i + PillarThreads
      [] w.loop = "brute" -> w.i + BruteStride
      [] OTHER -> w.i + 1

\* The bound of the nextInt call in the body of w's loop: the anchor's
\* spacing less separation; a village's for the kernels that check every
\* constraint; none in the pre-filter
DrawBound(w) ==
    CASE w.loop = "portal" -> PORTAL_SPACING - PORTAL_SEPARATION
      [] w.loop = "ship" -> SHIPWRECK_SPACING - SHIPWRECK_SEPARATION
      [] w.loop = "filter" -> 0
      [] OTHER -> VILLAGE_SPACING - VILLAGE_SEPARATION

SetWorker(k, w) ==
    /\ lab' = [lab EXCEPT !.workers[k] = w]
    /\ UNCHANGED << overflowWraps, mainVars >>

\* Thread k tests its loop: it leaves and returns, or enters the body
LoopTest(k) ==
    /\ lab.workers[k].at = "test"
    /\ lab.workers[k].n <= LoopRoom
    /\ \E w \in {lab.workers[k]} :
          IF LoopBreaks(w) THEN SetWorker(k, [w EXCEPT !.at = "left"])
          ELSE IF DrawBound(w) = 0
               THEN SetWorker(k, [w EXCEPT !.i = LoopAdvance(w), !.n = w.n + 1])
               ELSE \E s \in DrawSeeds : SetWorker(k, [w EXCEPT !.at = "draw", !.seed = s])

\* One turn of nextInt's do { bits = next(31); val = bits % bound; }
\* while (bits - val + (bound - 1) < 0) in thread k; a draw that is kept
\* ends the body and the loop variable moves on
DrawTurn(k) ==
    /\ lab.workers[k].at = "draw"
    /\ \E w \in {lab.workers[k]} : \E n \in {next(w.seed, 31)} :
          IF nextIntRejects(n.val, n.val % DrawBound(w), DrawBound(w))
          THEN SetWorker(k, [w EXCEPT !.seed = n.seed, !.redrawn = TRUE])
          ELSE SetWorker(k, [w EXCEPT !.at = "test", !.seed = n.seed,
                                      !.i = LoopAdvance(w), !.n = w.n + 1])

\* cudaDeviceSynchronize returns when every thread has returned
Synchronize ==
    /\ lab.host = "waiting"
    /\ \A k \in WorkerIds : lab.workers[k].at = "left"
    /\ lab' = [lab EXCEPT !.host = "returned"]
    /\ UNCHANGED << overflowWraps, mainVars >>

FairNext ==
    \/ \E k \in WorkerIds : LoopTest(k)
    \/ \E k \in WorkerIds : DrawTurn(k)
    \/ Synchronize

\* The device runs every thread that can take a step, and the host's wait
\* ends once it can
FairSpec ==
    /\ FairInit /\ [][FairNext]_vars
    /\ \A k \in WorkerIds : WF_vars(LoopTest(k) \/ DrawTurn(k))
    /\ WF_vars(Synchronize)

(***************************************************************************)
(* Properties                                                              *)
(***************************************************************************)
\* The seeds the stage-2 kernel accepted, in or out of the array
StoredSeeds == { stored[i].seed : i \in 1..Len(stored) }

\* The full verifier of every constraint of cs accepts seed
AcceptedByAll(seed, cs) ==
    \A k \in 1..Len(cs) : check_full(seed, cs[k], ThreadRand).ok

\* C1 (acceptance soundness): whatever the strategy, every seed stored in the
\* output array, and every seed written to the file, passes the full verifier
\* (placement at the observed chunk and every payload attribute) of every
\* constraint of the input, the reversing anchor included.
C1_AcceptanceSound ==
    /\ \A i \in 1..results_buffer_size :
          d_found_seeds[i] # Uninit => AcceptedByAll(d_found_seeds[i], h_all_constraints)
    /\ outfile # NoFile =>
          \A i \in 1..Len(outfile) : AcceptedByAll(outfile[i], h_all_constraints)

\* C1's case: the reversing kernel, anchored on the portal of a two-constraint
\* input, examined a seed the anchor's verifier alone accepts and another that
\* all verifiers accept, and the run wrote its file.
C1_Witness ==
    /\ pc = "exit" /\ kernel = "reverse"
    /\ h_all_constraints = <<PortalA, VillageA>>
    /\ {SeedA, SeedB} \subseteq examined
    /\ check_full(SeedB, PortalA, ThreadRand).ok
    /\ outfile = <<SeedA>>

\* The two placement draws of the shipwreck verifier, redraws included, put
\* every shipwreck of cs at its chunk
PlacesAllShipwrecks(seed, cs) ==
    \A k \in 1..Len(cs) :
        cs[k].type = "SHIPWRECK" =>
            Placement(seed, cs[k].chunkX, cs[k].chunkZ, SHIPWRECK_SPACING,
                      SHIPWRECK_SEPARATION, SHIPWRECK_SALT).ok

\* C2 (pre-filter soundness): once the filter kernel has run on the
\* shipwrecks of the input, every seed whose placement draws (redraws
\* included) put every shipwreck at its chunk has its low 20 bits in the
\* filter's output.
C2_PrefilterSound ==
    (pc \in {"stage2", "sync", "exit"} /\ "filter" \in Range(launched)) =>
        \A p \in sample.probes :
            PlacesAllShipwrecks(p, h_all_constraints)
                => Low20(p) \in Range(d_valid_lower20bits)

\* The placement test of the anchor's verifier accepts seed
AnchorPlaces(seed, anchor) ==
    IF anchor.type = "RUINED_PORTAL"
    THEN Placement(seed, anchor.chunkX, anchor.chunkZ, PORTAL_SPACING,
                   PORTAL_SEPARATION, RUINED_PORTAL_SALT).ok
    ELSE Placement(seed, anchor.chunkX, anchor.chunkZ, SHIPWRECK_SPACING,
                   SHIPWRECK_SEPARATION, SHIPWRECK_SALT).ok

\* The reversing kernel ran to its end
ReversingDone == kernel = "reverse" /\ KernelDone /\ ~deviceFault

\* C3 (reversing completeness): when the reversing kernel has finished, every
\* seed whose low 20 bits are in the list it was given and that the anchor's
\* placement test (redraws included) accepts was handed to the verifiers as a
\* candidate.  For a seed p the kernel is followed through the one iteration
\* whose draw is p's second placement state or the nearest below it; no other
\* iteration of that thread can produce p.
C3_ReversingComplete ==
    ReversingDone =>
        \A p \in sample.probes :
            (Low20(p) \in Range(d_valid_lower20bits) /\ AnchorPlaces(p, d_anchor))
                => p \in examined

\* What bruteforceStructureSeeds_kernel stores for the constraints cs and
\* the low-20 list, over the grid tasks the model follows
BruteEmits(cs, list) ==
    { c \in { BruteCandidate(t.y, list[t.x]) : t \in BruteTasks(list) } :
        check_all(c, cs, 1, ThreadRand).ok }

\* C4 (strategy equivalence): on the same constraints and the same low-20
\* list the reversing kernel stores the seeds the brute-force kernel would
\* store; compared on the probe seeds, which both kernels are followed for.
C4_StrategiesAgree ==
    ReversingDone =>
        StoredSeeds \cap sample.probes
            = BruteEmits(h_all_constraints, d_valid_lower20bits) \cap sample.probes

\* run_stage1 on cs: the surviving low-20 values (any order)
SurvivingLow20(cs) ==
    IF Shipwrecks(cs) = << >> THEN SortedInts(sample.low20s)
    ELSE SortedInts({ l \in sample.low20s : FilterPasses(l, Shipwrecks(cs)) })

\* What reverseAndCheck_kernel stores for cs and the low-20 list
ReverseEmitsFor(anchor, validators, list) ==
    { c \in { ReverseCandidate(anchor, list[t.x], t) : t \in ReverseTasks(anchor, list) }
              \ {NoSeed} :
        AnchorAndValidators(c, anchor, validators, ThreadRand).ok }

ReverseEmits(cs, list) == ReverseEmitsFor(cs[AnchorIdx(cs)], Validators(cs), list)

\* What stage 2 stores, given stage 1's list
Stage2Emits(cs, list) ==
    IF list = << >> THEN {}
    ELSE IF use_reversing(cs) THEN ReverseEmits(cs, list)
    ELSE BruteEmits(cs, list)

\* The seeds a run of StandardSearch::execute on cs stores
SearchEmits(cs) == Stage2Emits(cs, SurvivingLow20(cs))

\* A standard search ran to its end
StandardDone ==
    /\ pc = "exit" /\ ~deviceFault
    /\ h_pillarseed = NoPillar /\ h_all_constraints # << >>

\* C5 (intersection law): the seeds the standard search stores for an input
\* A followed by B are those it stores for A alone and also for B alone,
\* for every way of cutting the input in two; compared on the probe seeds.
C5_IntersectionLaw ==
    StandardDone =>
        \A k \in 1..(Len(h_all_constraints) - 1) :
            StoredSeeds \cap sample.probes
                = (SearchEmits(SubSeq(h_all_constraints, 1, k))
                   \cap SearchEmits(SubSeq(h_all_constraints, k + 1, Len(h_all_constraints))))
                  \cap sample.probes

\* The pure summary agrees with the run it summarises
SearchEmitsIsRun == StandardDone => StoredSeeds = SearchEmits(h_all_constraints)

\* C6 (sorted, duplicate-free file): the lines of found_seeds.txt are
\* strictly ascending, for every strategy and every order in which the
\* threads took their indices.
C6_FileStrictlyAscending ==
    outfile # NoFile =>
        \A i \in 1..(Len(outfile) - 1) : WordLess(outfile[i], outfile[i + 1])

\* C6's case: a file of two seeds that lay in the array in descending order
C6_Witness ==
    /\ outfile # NoFile /\ Len(outfile) = 2
    /\ WordLess(d_found_seeds[2], d_found_seeds[1])

\* The solver kernels started, in order
Solvers == SelectSeq(launched, LAMBDA k : k \in {"pillar", "reverse", "brute"})

\* "at least one constraint is a shipwreck or ruined portal and 1 <= n <= 10"
ReversingApplies(cs) ==
    /\ \E i \in 1..Len(cs) : cs[i].type \in {"SHIPWRECK", "RUINED_PORTAL"}
    /\ 1 <= Len(cs) /\ Len(cs) <= 10

\* The index of the first constraint of the type in input order
FirstOfType(cs, type) ==
    CHOOSE i \in 1..Len(cs) :
        cs[i].type = type /\ \A k \in 1..(i - 1) : cs[k].type # type

\* "the first ruined portal in input order, or the first shipwreck when
\* there is no portal"
StatedAnchorIdx(cs) ==
    IF \E i \in 1..Len(cs) : cs[i].type = "RUINED_PORTAL"
    THEN FirstOfType(cs, "RUINED_PORTAL")
    ELSE FirstOfType(cs, "SHIPWRECK")

\* "exactly all other constraints", in input order
AllOthers(cs, a) == [k \in 1..(Len(cs) - 1) |-> IF k < a THEN cs[k] ELSE cs[k + 1]]

\* The reversing kernel got the stated anchor and validators
StatedAnchorUsed ==
    /\ d_anchor = h_all_constraints[StatedAnchorIdx(h_all_constraints)]
    /\ d_validators = AllOthers(h_all_constraints, StatedAnchorIdx(h_all_constraints))

\* The file gave a constraint or a pillar seed: load_constraints_from_file
\* returned true
InputLoaded == h_all_constraints # << >> \/ h_pillarseed # NoPillar

C8_OverflowHandled ==
    (pc = "exit" /\ Len(stored) > results_buffer_size) =>
        /\ exit_code = 0
        /\ warned
        /\ outfile # NoFile /\ Len(outfile) = results_buffer_size
        /\ \A i \in 1..Len(outfile) : AcceptedByAll(outfile[i], h_all_constraints)

\* C9 (single writer per index): no two accepting candidates were given the
\* same index by the hit counter, and when the host reads the counter after
\* the search it holds the number of accepting candidates.
C9_SingleWriterPerIndex ==
    /\ \A i, j \in 1..Len(stored) : i # j => stored[i].idx # stored[j].idx
    /\ (pc = "exit" /\ exit_code = 0 /\ launched # << >>) => d_found_count = Len(stored)

\* mid32 as the specification writes it: s1 = (P << 16 | lower16) * 1540035429
\* + 239479465, s2 = s1 * 1540035429 + 239479465, (s2 XOR 25214903917) AND
\* 0xFFFFFFFF; 2^64 being a multiple of 2^48, the low 32 bits are those of
\* the 48-bit computation.
StatedStep(x) == Add48(Mul48(x, Dec(<<1540, 35429>>)), Dec(<<239, 479465>>))

StatedMid32(P, lower16) ==
    MaskWord(Xor48(StatedStep(StatedStep(Add48(Mul48(P, Pow2Word(16)), FromNat(lower16)))),
                   Dec(<<25214, 903917>>)), 32)

\* (upper16 << 32) | mid32(P, lower16)
StatedPillarSeed(P, lower16, upper16) ==
    Add48(Mul48(FromNat(upper16), Pow2Word(32)), StatedMid32(P, lower16))

\* C10 (pillarseed exactness): when the pillarseed kernel has finished, the
\* seeds it stored are exactly the seeds (upper16 << 32) | mid32(P, lower16)
\* that every verifier accepts, over the blocks and upper16 values followed,
\* and each (lower16, upper16) pair was examined exactly once.
C10_PillarseedExact ==
    (kernel = "pillar" /\ KernelDone /\ ~deviceFault) =>
        /\ StoredSeeds =
              { c \in { StatedPillarSeed(h_pillarseed, lo, up) :
                          lo \in sample.lower16s, up \in sample.upper16s } :
                  AcceptedByAll(c, h_all_constraints) }
        /\ Len(stored) = Cardinality(StoredSeeds)
        /\ DOMAIN visits = { <<lo, up, 0>> : lo \in sample.lower16s, up \in sample.upper16s }
        /\ \A k \in DOMAIN visits : visits[k] = 1

\* C10's case: a finished pillarseed search over four (lower16, upper16)
\* pairs of which one holds a seed every verifier accepts, written to the file
C10_Witness ==
    /\ kernel = "pillar" /\ pc = "exit"
    /\ Cardinality(DOMAIN visits) = 4
    /\ outfile = <<SeedA>>

\* C11 (input-level error exits): once the file has been read, a run that is
\* left with no constraint, with or without a pillar seed, launches no stage
\* and no kernel, writes no file, and is either about to leave main or has
\* left it with exit code 1.
C11_InputErrorExits ==
    (pc # "start" /\ h_all_constraints = << >>) =>
        /\ pc \in {"loaded", "exit"}
        /\ launched = << >> /\ kernel = "none" /\ tasks = {}
        /\ outfile = NoFile
        /\ d_found_count = 0
        /\ exit_code = (IF pc = "exit" THEN 1 ELSE NotExited)

\* C11's case: a file whose only usable line is the pillar seed 4294967295,
\* after two lines that were warned about; the run has ended.
C11_Witness ==
    /\ pc = "exit" /\ exit_code = 1
    /\ h_all_constraints = << >>
    /\ h_pillarseed = Dec(<<4294, 967295>>)
    /\ warned_lines = <<1, 2>>
    /\ launched = << >> /\ outfile = NoFile

\* The lines load_constraints_from_file hands to parse_line: the file's lines
\* trimmed, without empty lines and comments, without the pillar seed line
ConstraintLines(raw) ==
    IF LoadLines(ReadLines(raw, 1, << >>)).pillarseed # NoPillar
    THEN SubSeq(ReadLines(raw, 1, << >>), 1, Len(ReadLines(raw, 1, << >>)) - 1)
    ELSE ReadLines(raw, 1, << >>)

WellFormed(line) == parse_line(line).res = "true"
Malformed(line) == ~WellFormed(line)

\* The constraints of the well-formed lines, in the order of the lines
ConstraintsOf(lines) ==
    [i \in 1..Len(SelectSeq(lines, WellFormed)) |->
        parse_line(SelectSeq(lines, WellFormed)[i]).c]

\* The pillar seed line of the file, if it has one
PillarLine(raw) ==
    IF LoadLines(ReadLines(raw, 1, << >>)).pillarseed # NoPillar
    THEN << ReadLines(raw, 1, << >>)[Len(ReadLines(raw, 1, << >>))] >>
    ELSE << >>

\* The file without its malformed lines, and with all of them moved to the top
WithoutMalformed(raw) == SelectSeq(ConstraintLines(raw), WellFormed) \o PillarLine(raw)
MalformedFirst(raw) ==
    SelectSeq(ConstraintLines(raw), Malformed) \o WithoutMalformed(raw)

\* C12 (malformed-line skipping): after the load of a readable file, the
\* constraint list holds exactly the constraints of the lines a parser
\* accepts, in file order; every other line was warned about; the same file
\* without its malformed lines, or with them moved to the top, loads the same
\* list; the load succeeds iff a constraint or a pillar seed remains; and a
\* run that is left with a constraint goes on to launch its search.  The
\* file, the list and the warnings do not change after the load, so the load
\* is looked at in the state it returns in.
C12_MalformedSkipped ==
    /\ (h_all_constraints # << >> /\ pc = "exit") => launched # << >>
    /\ (pc = "loaded" /\ file.is_open) =>
        /\ h_all_constraints = ConstraintsOf(ConstraintLines(file.lines))
        /\ Range(warned_lines) =
              { i \in 1..Len(ConstraintLines(file.lines)) :
                  Malformed(ConstraintLines(file.lines)[i]) }
        /\ Len(warned_lines) + Len(h_all_constraints) = Len(ConstraintLines(file.lines))
        /\ load_constraints_from_file(WithoutMalformed(file.lines)).constraints
              = h_all_constraints
        /\ load_constraints_from_file(WithoutMalformed(file.lines)).warnings = << >>
        /\ load_constraints_from_file(MalformedFirst(file.lines)).constraints
              = h_all_constraints
        /\ load_constraints_from_file(file.lines).ok
              = (h_all_constraints # << >> \/ h_pillarseed # NoPillar)

\* C12's case: a portal line and a village line among nine malformed lines;
\* the search ran on the two constraints and wrote its file.
C12_Witness ==
    /\ pc = "exit" /\ exit_code = 0
    /\ Len(file.lines) = 11
    /\ warned_lines = <<1, 2, 4, 5, 6, 7, 9, 10, 11>>
    /\ h_all_constraints = <<PortalA, VillageA>>
    /\ outfile = <<SeedA>>

\* The verdict of the kernel's verifier calls on seed, started on RNG object rand
KernelVerdict(seed, rand) ==
    IF kernel = "reverse" THEN AnchorAndValidators(seed, d_anchor, d_validators, rand)
    ELSE check_all(seed, h_all_constraints, 1, rand)

\* RNG objects a verifier may be handed: every state a thread's earlier calls
\* left behind
SomeRands == { rands[k] : k \in DOMAIN rands }

InRange48(w) == Len(w) = 4 /\ \A i \in 1..4 : w[i] \in 0..(LimbBase - 1)

\* Byte j (0 .. 5) of the low 48 bits of a word
ByteOf(w, j) ==
    CASE j % 3 = 0 -> w[2 * (j \div 3) + 1] % 256
      [] j % 3 = 1 -> w[2 * (j \div 3) + 1] \div 256 + 16 * (w[2 * (j \div 3) + 2] % 16)
      [] j % 3 = 2 -> w[2 * (j \div 3) + 2] \div 16

\* 25214903917 = 0x05DEECE66D, least significant byte first
StatedMultBytes == <<109, 230, 236, 222, 5, 0>>

RECURSIVE ByteColumn(_, _, _)
\* The sum of the byte products w_i * m_(k-i) for i = j .. k
ByteColumn(w, k, j) ==
    IF j > k THEN 0
    ELSE ByteOf(w, j) * StatedMultBytes[k - j + 1] + ByteColumn(w, k, j + 1)

RECURSIVE StatedStepBytes(_, _, _, _)
\* (w * 25214903917 + 11) mod 2^48 by long multiplication on bytes: bytes
\* holds the bytes below byte k, carry is what the columns below k carry
\* over, sum is column k with the carry
StatedStepBytes(w, k, carry, bytes) ==
    IF k = 6 THEN bytes
    ELSE CHOOSE B \in { StatedStepBytes(w, k + 1, sum \div 256, Append(bytes, sum % 256)) :
                          sum \in {ByteColumn(w, k, 0) + carry} } : TRUE

\* The six bytes of (w * 25214903917 + 11) mod 2^48
StatedStep48(w) == StatedStepBytes(w, 0, 11, << >>)

\* Byte b at bit position pos, shifted right by k bits
ByteShr(b, pos, k) ==
    IF pos >= k THEN b * Pow2(pos - k) ELSE IF k - pos >= 8 THEN 0 ELSE b \div Pow2(k - pos)

\* The top n bits of the 48-bit number with bytes B read as a signed 32-bit
\* integer: for n = 32 bit 47 is the sign bit and weighs -2^31
StatedTop(B, n) ==
    IF n < 32
    THEN ByteShr(B[1], 0, 48 - n) + ByteShr(B[2], 8, 48 - n) + ByteShr(B[3], 16, 48 - n)
         + ByteShr(B[4], 24, 48 - n) + ByteShr(B[5], 32, 48 - n) + ByteShr(B[6], 40, 48 - n)
    ELSE IF B[6] < 128
    THEN B[3] + 256 * B[4] + 65536 * B[5] + 16777216 * B[6]
    ELSE ((B[3] + 256 * B[4] + 65536 * B[5] + 16777216 * (B[6] - 128)) - 2147483647) - 1

\* A call next(bits) that left the seed after and returned ret did what is
\* stated, B being the bytes of (seed before * 25214903917 + 11) mod 2^48
NextAsStated(after, ret, bits, B) ==
    /\ InRange48(after)
    /\ \A j \in 0..5 : ByteOf(after, j) = B[j + 1]
    /\ ret = StatedTop(B, bits)

\* Every call next(bits) made on the object, and every call next(bits) that
\* could be made on it now, bits in 1 .. 32, sets the seed to (seed *
\* 25214903917 + 11) mod 2^48 and returns its top bits as a signed 32-bit integer
NextCallsAsStated ==
    /\ lab.op = "next" =>
          \A B \in {StatedStep48(lab.before)} : NextAsStated(lab.rand, lab.ret, lab.arg, B)
    /\ lab.calls >= 1 =>
          \A B \in {StatedStep48(lab.rand)} : \A bits \in 1..32 :
              NextAsStated(next(lab.rand, bits).seed, next(lab.rand, bits).val, bits, B)

\* C14 as stated (RNG state invariant): after every sequence of calls of
\* setSeed, next, nextInt, nextLong, nextFloat, setRegionSeed and setCarverSeed
\* the seed is in [0, 2^48), and next does what is stated.
C14_RngStateAsStated ==
    /\ lab.calls >= 1 => InRange48(lab.rand)
    /\ NextCallsAsStated

\* C14 (RNG state invariant): once a call has written the seed, that is
\* after every sequence of calls that holds a call other than nextInt with a
\* bound <= 0, in every order and with every argument tried (negative and
\* 64-bit wide seeds and salts, negative coordinates, an object that was never
\* seeded), the seed is in [0, 2^48); and next does what is stated.
C14_RngState ==
    /\ lab.written => InRange48(lab.rand)
    /\ NextCallsAsStated

\* C14's case: the last of several calls on the object is next(32), and it
\* returned a negative number.
C14_Witness ==
    /\ lab.calls >= 2 /\ lab.op = "next" /\ lab.arg = 32 /\ lab.ret < 0
    /\ InRange48(lab.before)



\* C15: termination.  With the device running every thread that can take a
\* step, every thread of every kernel (pre-filter, reversing with a portal
\* or a shipwreck anchor, brute force, pillarseed) leaves its enumeration
\* loop, every nextInt do-while that draws again ends, and the host's wait
\* for the kernel returns.
C15_Terminates == <>(lab.host = "returned")

\* The host has returned from its wait for a reversing kernel one of whose
\* threads drew again inside nextInt and went on to its loop's break
C15_Witness ==
    /\ lab.host = "returned"
    /\ lab.kernel = "reverse"
    /\ \E k \in WorkerIds :
          /\ lab.workers[k].redrawn
          /\ lab.workers[k].n = LoopRoom
          /\ LoopBreaks(lab.workers[k])


\* C16: memory safety of the output array.  Every index at which a thread is
\* about to store into d_found_seeds is below the number of slots allocated.
C16_StoresInBounds ==
    \A h \in holding : h.buf = "found" => h.idx < results_buffer_size


\* (SPACING, SEPARATION, SALT) of the structure kind of a constraint
StatedKind(constraint) ==
    CASE constraint.type = "SHIPWRECK" ->
            << SHIPWRECK_SPACING, SHIPWRECK_SEPARATION, SHIPWRECK_SALT >>
      [] constraint.type = "RUINED_PORTAL" ->
            << PORTAL_SPACING, PORTAL_SEPARATION, RUINED_PORTAL_SALT >>
      [] constraint.type = "VILLAGE" ->
            << VILLAGE_SPACING, VILLAGE_SEPARATION, VILLAGE_SALT >>

\* dz is the second draw, taken from the state the first draw dx left
StatedDrawn(constraint, spacing, dx, dz) ==
    [x_ok |-> (constraint.chunkX \div spacing) * spacing + dx.val = constraint.chunkX,
     z_ok |-> (constraint.chunkZ \div spacing) * spacing + dz.val = constraint.chunkZ,
     after_x |-> dx.seed, after_z |-> dz.seed]

\* The placement predicate as stated: regions by division rounded toward
\* minus infinity (\div), set_region_seed, the x-draw, then the z-draw
StatedPlacement(seed, constraint, kind) ==
    CHOOSE st \in
        { StatedDrawn(constraint, kind[1], dx, nextInt(dx.seed, kind[1] - kind[2])) :
            dx \in { nextInt(setRegionSeed(seed, constraint.chunkX \div kind[1],
                                           constraint.chunkZ \div kind[1], kind[3]),
                             kind[1] - kind[2]) } } : TRUE

\* What a verifier does once placement has passed and left the RNG at rand
AfterPlacement(seed, constraint, rand) ==
    CASE constraint.type = "SHIPWRECK" ->
            ShipwreckAfterPlacement(seed, constraint, Verdict(TRUE, rand))
      [] constraint.type = "RUINED_PORTAL" ->
            PortalAfterPlacement(seed, constraint, Verdict(TRUE, rand))
      [] constraint.type = "VILLAGE" ->
            VillageAfterPlacement(seed, constraint, Verdict(TRUE, rand))

\* The verifier of the constraint on seed against the stated placement st
PlacementAsStated(seed, constraint, st) ==
    check_full(seed, constraint, ThreadRand) =
        (IF ~st.x_ok THEN Verdict(FALSE, st.after_x)
         ELSE IF ~st.z_ok THEN Verdict(FALSE, st.after_z)
         ELSE AfterPlacement(seed, constraint, st.after_z))

\* C17: placement predicate.  For every seed a finished run has examined and
\* every constraint of its list, the verifier of the constraint's kind fails
\* at the x-draw when the stated x equation fails, fails at the z-draw when x
\* holds and the stated z equation fails, and goes on to the property checks
\* from the state the z-draw left exactly when both hold; the regions are the
\* quotients rounded toward minus infinity.
C17_PlacementPredicate ==
    pc = "exit" =>
        \A c \in examined : \A k \in 1..Len(h_all_constraints) :
            \A st \in { StatedPlacement(c, h_all_constraints[k],
                                        StatedKind(h_all_constraints[k])) } :
                PlacementAsStated(c, h_all_constraints[k], st)

\* A finished run examined a seed that passes the placement of a constraint
\* whose chunk z is negative and no multiple of the spacing, and a seed that
\* fails the placement of a constraint
C17_Witness ==
    /\ pc = "exit"
    /\ \E c \in examined : \E k \in 1..Len(h_all_constraints) :
          \E st \in { StatedPlacement(c, h_all_constraints[k],
                                      StatedKind(h_all_constraints[k])) } :
              /\ st.x_ok /\ st.z_ok
              /\ h_all_constraints[k].chunkZ < 0
              /\ h_all_constraints[k].chunkZ % StatedKind(h_all_constraints[k])[1] # 0
              /\ check_full(c, h_all_constraints[k], ThreadRand).ok
    /\ \E c \in examined : \E k \in 1..Len(h_all_constraints) :
          \E st \in { StatedPlacement(c, h_all_constraints[k],
                                      StatedKind(h_all_constraints[k])) } :
              ~(st.x_ok /\ st.z_ok)



\* Second-draw values looked at: this many at each end of [0, 2^31), each
\* window given by its first and last value
WindowSize == 400
Windows == { << 0, WindowSize - 1 >>, << 2147483647 - (WindowSize - 1), 2147483647 >> }

\* Bits 17..19 of the state after two LCG steps from the region seed of L
StatedK(anchor, L) ==
    LowBits(RegionState2(FromNat(L), anchor.chunkX, anchor.chunkZ,
                         StatedKind(anchor)[1], StatedKind(anchor)[3]), 20) \div Pow2(17)

\* The expected in-region offset of the anchor's chunk z
StatedEz(anchor) ==
    anchor.chunkZ - (anchor.chunkZ \div StatedKind(anchor)[1]) * StatedKind(anchor)[1]

\* Java's rejection test b - b mod 25 + 24 >= 2^31
JavaRejects(b) == b - (b % 25) > 2147483647 - 24

\* The b of the window W with b mod 8 = K and b mod offset = ez, less for a
\* portal those Java rejects
StatedIn(K, ez, offset, portal, W) ==
    { b \in { W[2] - d : d \in 0..(W[2] - W[1]) } :
        b % 8 = K /\ b % offset = ez /\ (portal => ~JavaRejects(b)) }

\* The stated set, within the window W
StatedEnumerated(anchor, L, W) ==
    StatedIn(StatedK(anchor, L), StatedEz(anchor),
             StatedKind(anchor)[1] - StatedKind(anchor)[2],
             anchor.type = "RUINED_PORTAL", W)

\* The iterations of a loop with this stride that can fall into W
Around(W, stride) == (W[1] \div stride)..((W[2] \div stride) + 1)

\* bits_z of the iterations m of the portal loop that pass the test of line 765
PortalEnumerated(B_base, W) ==
    { b \in { 200 * m + B_base : m \in { n \in Around(W, 200) : ~PortalBreaks(B_base, n) } } :
        /\ b >= W[1] /\ b <= W[2]
        /\ ~nextIntRejects(b, b % (PORTAL_SPACING - PORTAL_SEPARATION),
                           PORTAL_SPACING - PORTAL_SEPARATION) }

\* u_lcgStateForZ >> 17 of the iterations (test_u, j) of the loops entered,
\* base_Z_contrib being bits 17..19 of finalLower20LCG
ShipEnumeratedFrom(base_Z_contrib, entered, W) ==
    { b \in { 8 * (5 * tj[2] + tj[1]) + base_Z_contrib :
              tj \in { uj \in entered \X Around(W, 40) : ~ShipBreaks(uj[1], uj[2]) } } :
        b >= W[1] /\ b <= W[2] }

ShipEnumerated(anchor, L, W) ==
    ShipEnumeratedFrom(
        LowBits(AnchorState2(L, floorDiv(anchor.chunkX, SHIPWRECK_SPACING),
                             floorDiv(anchor.chunkZ, SHIPWRECK_SPACING),
                             SHIPWRECK_SALT), 20) \div Pow2(17),
        ShipTestU(anchor, L), W)

\* The second draw of the seed c at the anchor
SecondDraw(anchor, c) ==
    ShrInt(RegionState2(c, anchor.chunkX, anchor.chunkZ, StatedKind(anchor)[1],
                        StatedKind(anchor)[3]), 17)

\* C18: reversing enumeration set.  While the reversing kernel runs, for its
\* anchor (expected offset below SPACING - SEPARATION) and every low-20-bit
\* value of its list, the second-draw values the thread's loop hands on are,
\* at both ends of [0, 2^31), exactly the b with b mod 8 = K and
\* b mod (SPACING - SEPARATION) = ez, less for a portal those Java's rejection
\* test rejects; and the second draw of every seed the kernel has examined is
\* such a b.
C18_EnumerationSet ==
    (/\ kernel = "reverse"
     /\ StatedEz(d_anchor) < StatedKind(d_anchor)[1] - StatedKind(d_anchor)[2]) =>
        /\ \A i \in 1..Len(d_valid_lower20bits) : \A W \in Windows :
              StatedEnumerated(d_anchor, d_valid_lower20bits[i], W) =
                  (IF d_anchor.type = "RUINED_PORTAL"
                   THEN PortalEnumerated(PortalBBase(d_anchor, d_valid_lower20bits[i]), W)
                   ELSE ShipEnumerated(d_anchor, d_valid_lower20bits[i], W))
        /\ \A c \in examined : \A b \in { SecondDraw(d_anchor, c) } :
              b \in StatedEnumerated(d_anchor, Low20(c), << b, b >>)

\* 48-bit states at the ends of the range and inside it
RoundTripStates ==
    { ZeroWord, FromNat(1), LCG_ADD, Not48(ZeroWord), LCG_MULT, LCG_MULT_INV, XOR_MASK }

\* The iteration whose visit is recorded under key k
VisitTask(k) == [x |-> k[1], y |-> k[2], z |-> k[3]]

\* Replaying set_region_seed and two LCG steps on the recovered seed c gives
\* state2 again, and the low 20 bits of c are L
Replays(anchor, L, c, state2) ==
    c # NoSeed =>
        /\ RegionState2(c, anchor.chunkX, anchor.chunkZ, StatedKind(anchor)[1],
                        StatedKind(anchor)[3]) = state2
        /\ Low20(c) = L

\* C19: inversion round trip.  246154705703781 * 25214903917 is 1 modulo 2^48,
\* an inverse LCG step undoes a forward step (and a forward step an inverse
\* one) on every state tried and on every seed examined, and every seed the
\* reversing kernel has recovered from a candidate state2, for regions of
\* either sign, gives that state2 back under set_region_seed and two forward
\* steps and has the input L as its low 20 bits.
C19_InversionRoundTrip ==
    /\ Mul48(LCG_MULT, LCG_MULT_INV) = FromNat(1)
    /\ \A s \in RoundTripStates \cup examined :
          /\ Mul48(Sub48(Add48(Mul48(s, LCG_MULT), LCG_ADD), LCG_ADD), LCG_MULT_INV) = s
          /\ LcgBack(LcgStep(s)) = s
          /\ LcgStep(LcgBack(s)) = s
    /\ kernel = "reverse" =>
          \A k \in DOMAIN visits :
              Replays(d_anchor, d_valid_lower20bits[k[1]],
                      ReverseCandidate(d_anchor, d_valid_lower20bits[k[1]], VisitTask(k)),
                      ReverseState2(d_anchor, d_valid_lower20bits[k[1]], VisitTask(k)))

\* The reversing kernel has recovered a seed for an anchor in a region with
\* negative coordinates
C19_Witness ==
    /\ kernel = "reverse"
    /\ floorDiv(d_anchor.chunkX, StatedKind(d_anchor)[1]) < 0
    /\ floorDiv(d_anchor.chunkZ, StatedKind(d_anchor)[1]) < 0
    /\ \E k \in DOMAIN visits :
          ReverseCandidate(d_anchor, d_valid_lower20bits[k[1]], VisitTask(k)) # NoSeed

\* Bits 17..18 of the state s1 equal chunkX mod 4 and those of the next state
\* chunkZ mod 4
StatedBitsMatch(s1, chunkX, chunkZ) ==
    /\ ShrInt(s1, 17) % 4 = chunkX % 4
    /\ ShrInt(LcgStep(s1), 17) % 4 = chunkZ % 4

\* The pre-filter as stated, for one shipwreck constraint: the region-seeded
\* 48-bit state of L, one step and two steps on
StatedFilter(L, constraint) ==
    \A s1 \in { LcgStep(setRegionSeed(FromNat(L),
                                      constraint.chunkX \div SHIPWRECK_SPACING,
                                      constraint.chunkZ \div SHIPWRECK_SPACING,
                                      SHIPWRECK_SALT)) } :
        StatedBitsMatch(s1, constraint.chunkX, constraint.chunkZ)

\* The values of low20s the stated pre-filter keeps under the constraints cs
StatedSurvivors(low20s, cs) ==
    { L \in low20s :
        \A i \in 1..Len(cs) : cs[i].type = "SHIPWRECK" => StatedFilter(L, cs[i]) }

\* The values the filter kernel has put out and not stored yet: on their way
\* to the slot they were given
FilterPending == { h \in holding : h.buf = "low20" }

\* The slots written so far: those handed out and no longer on their way
FilterStored == { i \in 1..d_lower20_count : \A h \in FilterPending : h.idx # i - 1 }

\* C20: pre-filter output.  While the filter kernel runs, every value it has
\* put out passes the stated filter for every shipwreck constraint, no value
\* is put out twice, every slot index is inside the result buffer and the
\* count is at most its size; once stage 1 has ended, the list handed to
\* stage 2 holds exactly the values the stated filter keeps, each once, and
\* all values when the constraints hold no shipwreck.
C20_PreFilterOutput ==
    /\ kernel = "filter" =>
          /\ \A h \in FilterPending :
                /\ h.idx < Len(d_lower20_results)
                /\ h.idx < d_lower20_count
                /\ \A g \in FilterPending : g.idx = h.idx => g = h
                /\ h.val \in StatedSurvivors(sample.low20s, h_all_constraints)
                /\ \A g \in FilterPending : g.val = h.val => g = h
                /\ \A i \in FilterStored : d_lower20_results[i] # h.val
          /\ \A i \in FilterStored :
                /\ d_lower20_results[i] \in StatedSurvivors(sample.low20s, h_all_constraints)
                /\ \A j \in FilterStored : d_lower20_results[j] = d_lower20_results[i] => j = i
          /\ d_lower20_count = Cardinality(FilterStored) + Cardinality(FilterPending)
          /\ d_lower20_count <= Len(d_lower20_results)
    /\ pc = "stage2" =>
          /\ Range(d_valid_lower20bits) = StatedSurvivors(sample.low20s, h_all_constraints)
          /\ Len(d_valid_lower20bits) = Cardinality(Range(d_valid_lower20bits))
          /\ lower20_count = Len(d_valid_lower20bits)
          /\ Shipwrecks(h_all_constraints) = << >> =>
                Range(d_valid_lower20bits) = sample.low20s

\* Stage 1 has ended after a filter kernel, for shipwrecks one of which lies
\* at negative chunk coordinates, that kept one value and dropped another
\* whose x-draw bits matched
C20_Witness ==
    /\ pc = "stage2"
    /\ "filter" \in Range(launched)
    /\ d_valid_lower20bits # << >>
    /\ \E i \in 1..Len(h_all_constraints) :
          /\ h_all_constraints[i].type = "SHIPWRECK"
          /\ h_all_constraints[i].chunkX < 0 /\ h_all_constraints[i].chunkZ < 0
    /\ \E L \in sample.low20s \ Range(d_valid_lower20bits) :
          \A i \in 1..Len(h_all_constraints) :
              h_all_constraints[i].type = "SHIPWRECK" =>
                  ShrInt(LcgStep(setRegionSeed(FromNat(L),
                             h_all_constraints[i].chunkX \div SHIPWRECK_SPACING,
                             h_all_constraints[i].chunkZ \div SHIPWRECK_SPACING,
                             SHIPWRECK_SALT)), 17) % 4 = h_all_constraints[i].chunkX % 4

\* The step starts a stage-2 kernel
StartsStage2 ==
    /\ launched' # launched
    /\ launched'[Len(launched')] \in {"reverse", "brute"}

\* The list and the count are those stage 1 produced: the first
\* d_lower20_count results of the filter kernel, or every value when no
\* filter kernel ran
ListFromStage1 ==
    /\ lower20_count = Len(d_valid_lower20bits)
    /\ IF "filter" \in Range(launched)
       THEN /\ lower20_count = d_lower20_count
            /\ \A i \in 1..lower20_count : d_valid_lower20bits[i] = d_lower20_results[i]
       ELSE Range(d_valid_lower20bits) = sample.low20s

\* C21: stage ordering.  A step that starts a stage-2 kernel starts from a
\* state in which stage 1 ran and no thread of the filter kernel has work or a
\* store left, and the work it hands out covers exactly the indices of the
\* list stage 1 produced; no step taken while a stage-2 kernel is the running
\* kernel changes the list or its count; with a count of 0 the host starts no
\* kernel and the run ends with a hit count of 0 and no stage-2 kernel
\* launched; and a step in which the host leaves with the hit counter read
\* (exit code 0) starts from a state in which no thread has work or a store
\* left.
C21_StageOrdering ==
    [][ /\ StartsStage2 =>
              /\ "stage1" \in Range(launched)
              /\ tasks = {} /\ holding = {}
              /\ ListFromStage1
              /\ { t.x : t \in tasks' } = 1..lower20_count
        /\ kernel \in {"reverse", "brute"} =>
              UNCHANGED << d_valid_lower20bits, lower20_count >>
        /\ (pc = "stage2" /\ lower20_count = 0) =>
              /\ pc' = "sync"
              /\ UNCHANGED << kernel, tasks, launched, d_found_count >>
        /\ (pc' = "exit" /\ "stage1" \in Range(launched) /\ lower20_count = 0) =>
              /\ d_found_count' = 0
              /\ Range(launched') \cap {"reverse", "brute"} = {}
        /\ (pc = "sync" /\ pc' = "exit" /\ exit_code' = 0) =>
              tasks = {} /\ holding = {}
      ]_vars

\* A standard search ended after a filter kernel and a stage-2 kernel that
\* found a seed
C21_Witness ==
    /\ pc = "exit"
    /\ "filter" \in Range(launched)
    /\ Range(launched) \cap {"reverse", "brute"} # {}
    /\ d_found_count > 0

\* The (index, upper value) pairs the brute-force kernel is followed for
BrutePairs ==
    { << i, ShrInt(p, 20), 0 >> : i \in 1..Len(d_valid_lower20bits), p \in sample.probes }

\* The unit of work t as the stated partition has it: global index idx below
\* n * 2^28, list index idx div 2^28, upper value idx mod 2^28, on the worker
\* the grid-stride loop gives idx to
StatedBruteTask(t, n, stride) ==
    /\ t.ord >= 0 /\ t.ord \div Pow2(28) < n
    /\ t.x - 1 = t.ord \div Pow2(28)
    /\ t.y = t.ord % Pow2(28)
    /\ t.thread = << t.ord % stride >>

\* c is (U << 20) | L
StatedBruteSeed(c, U, L) == Low20(c) = L /\ ShrInt(c, 20) = U

RotationStates == { lab.rand, lab.before } \cup RoundTripStates \cup DrawSeeds

\* C23 as stated: there is an RNG state from which next(2) and nextInt(4)
\* return different values or leave different seeds.
C23_DrawsDifferAsStated ==
    \E s \in RotationStates :
        \/ next(s, 2).val # nextInt(s, 4).val
        \/ next(s, 2).seed # nextInt(s, 4).seed

\* C23: the village rotation draw.  From every RNG state reached by any
\* sequence of calls, and from every state compared, next(2) and nextInt(4)
\* return the same value and leave the same seed, after one LCG step; a call
\* of either made on the object returned what the other would have.
C23_RotationDraw ==
    /\ \A s \in RotationStates :
          /\ next(s, 2) = nextInt(s, 4)
          /\ next(s, 2).seed = LcgStep(s)
    /\ (lab.op = "next" /\ lab.arg = 2) =>
          /\ lab.ret = nextInt(lab.before, 4).val
          /\ lab.rand = nextInt(lab.before, 4).seed
    /\ (lab.op = "nextInt" /\ lab.arg = 4) =>
          /\ lab.ret = next(lab.before, 2).val
          /\ lab.rand = next(lab.before, 2).seed

\* next(2) was called on a seeded object and returned 3
C23_Witness ==
    /\ lab.op = "next" /\ lab.arg = 2 /\ lab.ret = 3
    /\ lab.calls >= 2
    /\ InRange48(lab.before)

\* floor(bound * bits / 2^31), the product taken in 48 bits
StatedScaled(bound, bits) == ShrInt(Mul48(FromNat(bound), FromNat(bits)), 31)

\* bits - (bits mod bound) + (bound - 1) is above 2^31 - 1
StatedOverflows(bits, bound) == bits - (bits % bound) > 2147483647 - (bound - 1)

RECURSIVE StatedRedraw(_, _)
\* The draw that is kept: the first whose test does not overflow
StatedRedrawTurn(n, bound) ==
    IF StatedOverflows(n.val, bound) THEN StatedRedraw(n.seed, bound)
    ELSE [seed |-> n.seed, val |-> n.val % bound]

StatedRedraw(seed, bound) == StatedRedrawTurn(NextResult(LcgStep(seed), 31), bound)

\* next_int as stated, for bound >= 0
StatedNextInt(seed, bound) ==
    IF bound = 0 THEN [seed |-> seed, val |-> 0]
    ELSE IF \E k \in 0..30 : bound = 2^k
         THEN [seed |-> LcgStep(seed),
               val |-> StatedScaled(bound, ShrInt(LcgStep(seed), 17))]
         ELSE StatedRedraw(seed, bound)

\* Bounds compared: 0, powers of two up to 2^16, the three region sizes 20,
\* 25 and 26, the village and portal bounds, and a bound near 2^30
StatedBounds == { 0, 1, 2, 4, 16, 65536, 3, 10, 20, 25, 26, 100, 204, 459, 1073741825 }

\* 0 <= v < bound
InBound(r, bound) == r.val >= 0 /\ r.val < bound

\* C24: next_int result.  From the seed before every call made on the object
\* and the seed after it, for every bound compared: a bound above 0 gives a
\* value v with 0 <= v < bound; a power of two takes one LCG step and gives
\* floor(bound * next(31) / 2^31); any other bound draws again exactly while
\* bits - (bits mod bound) + (bound - 1) is above 2^31 - 1; bound 0 gives 0 and
\* leaves the seed alone.  And every nextInt call made with a bound >= 0
\* returned and left what is stated.
C24_NextIntResult ==
    /\ \A s \in { lab.rand, lab.before } : \A bound \in StatedBounds :
          /\ nextInt(s, bound) = StatedNextInt(s, bound)
          /\ bound > 0 => InBound(nextInt(s, bound), bound)
    /\ (lab.op = "nextInt" /\ lab.arg >= 0) =>
          /\ lab.ret = StatedNextInt(lab.before, lab.arg).val
          /\ lab.rand = StatedNextInt(lab.before, lab.arg).seed

RECURSIVE SkipDraws(_, _)
\* The seed after n draws whose values are not used
SkipDraws(seed, n) == IF n = 0 THEN seed ELSE SkipDraws(LcgStep(seed), n - 1)

\* The pre-draws stated for a biome category, c0 being the seed set_carver_seed
\* left
StatedPreDraws(category, c0) ==
    CASE category = DESERT -> 0
      [] category = JUNGLE -> 1
      [] category = MOUNTAINS -> IF next(c0, 24).val < 2^23 THEN 1 ELSE 2

\* mirror from the next(24) value mir
StatedPortalEnd(ptype, rot, mir) ==
    [ptype |-> ptype, rotation |-> rot.val,
     mirror |-> IF mir.val < 2^23 THEN MIRROR_NONE ELSE FRONT_BACK,
     rand |-> mir.seed]

\* rotation = next_int(4), ty being the type draw
StatedPortalTyped(base, ty) ==
    \* the rotation draw is bound once and handed on
    CHOOSE p \in { StatedPortalEnd(base + ty.val, rot, next(rot.seed, 24)) :
                     rot \in { nextInt(ty.seed, 4) } } : TRUE

\* giant iff next_float < 0.05: g / 2^24 < 13421773 / 2^28, the single
\* precision value of 0.05
StatedPortalDrawn(g) ==
    IF 16 * g.val < 13421773 THEN StatedPortalTyped(GIANT_PORTAL_1, nextInt(g.seed, 3))
    ELSE StatedPortalTyped(PORTAL_1, nextInt(g.seed, 10))

\* The portal the stated draw sequence gives from the carver seed c0
StatedPortal(category, c0) ==
    StatedPortalDrawn(next(SkipDraws(c0, StatedPreDraws(category, c0)), 24))

\* The portal constraint at the chunk of constraint with the attributes of p
PortalLike(constraint, category, ptype, rotation, mirror) ==
    [type |-> "RUINED_PORTAL", chunkX |-> constraint.chunkX, chunkZ |-> constraint.chunkZ,
     rotation |-> rotation, mirror |-> mirror, ptype |-> ptype, category |-> category]

\* The verifier from the carver seed c0 on, on a portal with these attributes
PortalVerdict(c0, constraint, category, ptype, rotation, mirror) ==
    PortalCategory(PortalLike(constraint, category, ptype, rotation, mirror), c0)

\* From the carver seed c0 the verifier accepts the portal p the stated
\* sequence gives, leaving the RNG where the stated sequence ends, and turns
\* down the portals that differ from p in type alone, in rotation alone or in
\* mirror alone
AcceptsExactly(c0, constraint, category, p) ==
    /\ PortalVerdict(c0, constraint, category, p.ptype, p.rotation, p.mirror)
          = Verdict(TRUE, p.rand)
    /\ ~PortalVerdict(c0, constraint, category, (p.ptype + 1) % 13, p.rotation,
                      p.mirror).ok
    /\ ~PortalVerdict(c0, constraint, category, p.ptype, (p.rotation + 1) % 4,
                      p.mirror).ok
    /\ ~PortalVerdict(c0, constraint, category, p.ptype, p.rotation, 1 - p.mirror).ok

\* The verifier past a placement that held is the verifier from the carver
\* seed on
FromCarverSeed(seed, constraint) ==
    \A c0 \in { setCarverSeed(seed, constraint.chunkX, constraint.chunkZ) } :
        /\ PortalAfterPlacement(seed, constraint, Verdict(TRUE, ThreadRand))
              = PortalCategory(constraint, c0)
        /\ \A category \in { DESERT, JUNGLE, MOUNTAINS } :
              AcceptsExactly(c0, constraint, category, StatedPortal(category, c0))

\* The chunks the draw sequence is compared at
PortalChunks == { PortalA, PortalP, PortalQ }

\* C25: ruined-portal draw sequence.  When a run has ended, for every seed
\* examined or followed, every chunk compared and each of the three biome
\* categories, the verifier past placement accepts the portal that the stated
\* sequence gives (0, 1, or for MOUNTAINS 1 or 2 pre-draws, the giant draw,
\* the type draw with bound 3 or 10, the rotation draw, the mirror draw), has
\* then drawn exactly as often as stated, and accepts no portal with another
\* type, another rotation or the other mirror.
C25_PortalDrawSequence ==
    pc = "exit" =>
        \A seed \in examined \cup sample.probes : \A constraint \in PortalChunks :
            FromCarverSeed(seed, constraint)

\* The carver seeds of the seeds and chunks compared
CarverSeeds ==
    { setCarverSeed(seed, constraint.chunkX, constraint.chunkZ) :
        seed \in examined \cup sample.probes, constraint \in PortalChunks }

\* A run with a portal constraint has ended and written a seed; among the
\* seeds compared one takes one MOUNTAINS pre-draw, one takes two, and one
\* gives a giant portal
C25_Witness ==
    /\ pc = "exit" /\ outfile # NoFile
    /\ \E i \in 1..Len(h_all_constraints) : h_all_constraints[i].type = "RUINED_PORTAL"
    /\ \E c0 \in CarverSeeds : StatedPreDraws(MOUNTAINS, c0) = 1
    /\ \E c0 \in CarverSeeds : StatedPreDraws(MOUNTAINS, c0) = 2
    /\ \E c0 \in CarverSeeds : \E category \in { DESERT, JUNGLE, MOUNTAINS } :
          StatedPortal(category, c0).ptype >= GIANT_PORTAL_1

\* The interval table as stated: for each village type the bound B, the
\* threshold from which a village is abandoned, and the rows <<upper end of
\* the interval of t, start piece>> in ascending order
StatedVillageTable ==
    [PLAINS |-> [B |-> 204, threshold |-> 200, rows |->
                   << <<50, "plains_fountain_01">>, <<100, "plains_meeting_point_1">>,
                      <<150, "plains_meeting_point_2">>, <<200, "plains_meeting_point_3">>,
                      <<201, "plains_fountain_01">>, <<202, "plains_meeting_point_1">>,
                      <<203, "plains_meeting_point_2">>, <<204, "plains_meeting_point_3">> >>],
     DESERT |-> [B |-> 250, threshold |-> 245, rows |->
                   << <<98, "desert_meeting_point_1">>, <<196, "desert_meeting_point_2">>,
                      <<245, "desert_meeting_point_3">>, <<247, "desert_meeting_point_1">>,
                      <<249, "desert_meeting_point_2">>, <<250, "desert_meeting_point_3">> >>],
     SAVANNA |-> [B |-> 459, threshold |-> 450, rows |->
                   << <<100, "savanna_meeting_point_1">>, <<150, "savanna_meeting_point_2">>,
                      <<300, "savanna_meeting_point_3">>, <<450, "savanna_meeting_point_4">>,
                      <<452, "savanna_meeting_point_1">>, <<453, "savanna_meeting_point_2">>,
                      <<456, "savanna_meeting_point_3">>, <<459, "savanna_meeting_point_4">> >>],
     TAIGA |-> [B |-> 100, threshold |-> 98, rows |->
                   << <<49, "taiga_meeting_point_1">>, <<98, "taiga_meeting_point_2">>,
                      <<99, "taiga_meeting_point_1">>, <<100, "taiga_meeting_point_2">> >>],
     SNOWY |-> [B |-> 306, threshold |-> 300, rows |->
                   << <<100, "snowy_meeting_point_1">>, <<150, "snowy_meeting_point_2">>,
                      <<300, "snowy_meeting_point_3">>, <<302, "snowy_meeting_point_1">>,
                      <<303, "snowy_meeting_point_2">>, <<306, "snowy_meeting_point_3">> >>]]

VillageTypes == DOMAIN StatedVillageTable

\* The pieces of each village type's pool
StatedPool(vtype) ==
    { StatedVillageTable[vtype].rows[i][2] : i \in 1..Len(StatedVillageTable[vtype].rows) }

\* The row of the table t falls in: the first whose upper end is above t
StatedRow(vtype, t) ==
    StatedVillageTable[vtype].rows[
        CHOOSE i \in 1..Len(StatedVillageTable[vtype].rows) :
            /\ t < StatedVillageTable[vtype].rows[i][1]
            /\ \A j \in 1..(i - 1) : t >= StatedVillageTable[vtype].rows[j][1]]

\* The (start piece, abandoned) pair stated for the draw t
StatedVillagePiece(vtype, t) ==
    [piece |-> StatedRow(vtype, t)[2], abandoned |-> t >= StatedVillageTable[vtype].threshold]

\* The village the stated sequence gives from the carver seed c0: rotation
\* next(2), then t = next_int(B)
StatedVillage(vtype, c0) ==
    CHOOSE v \in
        { [rotation |-> r.val,
           pair |-> StatedVillagePiece(vtype, t.val), rand |-> t.seed] :
            << r, t >> \in { << r0, nextInt(r0.seed, StatedVillageTable[vtype].B) >> :
                              r0 \in { next(c0, 2) } } } : TRUE

\* A village constraint at VillageA's chunk with these attributes
VillageLike(vtype, rotation, piece, is_abandoned) ==
    [type |-> "VILLAGE", chunkX |-> VillageA.chunkX, chunkZ |-> VillageA.chunkZ,
     rotation |-> rotation, piece |-> piece, vtype |-> vtype,
     is_abandoned |-> is_abandoned]

\* The comparison the verifier ends with, g being what
\* get_village_properties_device derived: it accepts the village v the
\* stated sequence gives and turns down the villages that differ from it in
\* rotation alone, in the abandoned flag alone, or in the piece, whatever
\* other piece is named
VillageAcceptsExactly(vtype, g, v) ==
    /\ VillageMatches(VillageLike(vtype, v.rotation, v.pair.piece, v.pair.abandoned), g)
          = Verdict(TRUE, v.rand)
    /\ ~VillageMatches(VillageLike(vtype, (v.rotation + 1) % 4, v.pair.piece,
                                   v.pair.abandoned), g).ok
    /\ ~VillageMatches(VillageLike(vtype, v.rotation, v.pair.piece, ~v.pair.abandoned),
                       g).ok
    /\ \A piece \in VillagePieceNames \ { v.pair.piece } :
          ~VillageMatches(VillageLike(vtype, v.rotation, piece, v.pair.abandoned), g).ok

\* The village verifier past a placement that held, for each village type:
\* it is get_village_properties_device from the carver seed followed by the
\* comparison, and it accepts exactly the stated village
VillageFromCarverSeed(seed) ==
    \A c0 \in { setCarverSeed(seed, VillageA.chunkX, VillageA.chunkZ) } :
        /\ VillageAfterPlacement(seed, VillageA, Verdict(TRUE, ThreadRand))
              = VillageMatches(VillageA, get_village_properties_device(VillageA.vtype, c0))
        /\ \A vtype \in VillageTypes :
              \A g \in { get_village_properties_device(vtype, c0) } :
                  VillageAcceptsExactly(vtype, g, StatedVillage(vtype, c0))

\* C26: village piece table.  (The table is compared once, before main's
\* first statement.)  For each village type the draw is taken with
\* the stated bound B, and for every t in [0, B) the piece and abandoned flag
\* the program derives are those of the stated interval table, the flag is
\* set exactly from the type's threshold on, and the piece is one of the
\* type's own; and when a run has ended, for every seed examined or followed
\* and each village type, the verifier past placement accepts the village
\* with the stated rotation, piece and flag and no village that differs in
\* one of them.
C26_VillageTable ==
    /\ pc = "start" =>
          \A vtype \in VillageTypes :
              /\ VillageBound(vtype) = StatedVillageTable[vtype].B
              /\ \A t \in 0..(StatedVillageTable[vtype].B - 1) :
                    /\ VillagePieceOf(vtype, t) = StatedVillagePiece(vtype, t)
                    /\ VillagePieceOf(vtype, t).abandoned
                          = (t >= StatedVillageTable[vtype].threshold)
                    /\ VillagePieceOf(vtype, t).piece \in StatedPool(vtype)
    /\ pc = "exit" =>
          \A seed \in examined \cup sample.probes : VillageFromCarverSeed(seed)

\* A run with a village constraint has ended and written a seed that
\* generates the village
C26_Witness ==
    /\ pc = "exit" /\ outfile # NoFile
    /\ \E i \in 1..Len(h_all_constraints) :
          /\ h_all_constraints[i].type = "VILLAGE"
          /\ \E seed \in Range(outfile) :
                StatedVillage(h_all_constraints[i].vtype,
                              setCarverSeed(seed, h_all_constraints[i].chunkX,
                                            h_all_constraints[i].chunkZ)).pair
                    = VillagePiece(h_all_constraints[i].piece,
                                   h_all_constraints[i].is_abandoned)

\* High halves tried for the 32-bit pillar seed: none, the lowest bit, the
\* top bit, all bits, and 0xABCD
PillarHighHalves == { 0, 1, 32768, 43981, 65535 }

\* The pillar seeds with the low 16 bits of P
SameLow16(P) ==
    { Add48(MaskWord(P, 16), ShlWord(h, 16)) : h \in PillarHighHalves }

\* The candidates pillarseedSearch_kernel hands to the verifiers for the pillar
\* seed P, over the blocks and upper16 values followed
PillarExamines(P) ==
    { PillarCandidate(P, lo, up) : lo \in sample.lower16s, up \in sample.upper16s }

\* The seeds the kernel stores for the pillar seed P and the constraints cs
PillarEmits(P, cs) == { c \in PillarExamines(P) : AcceptedByAll(c, cs) }

\* C27 (pillar seed high half): in a pillarseed search with the pillar seed P,
\* for every pillar seed Q with the low 16 bits of P and the same constraint
\* list, each (lower16, upper16) pair has the same candidate under Q as under
\* P, the candidates examined are among Q's, and when the kernel has finished
\* the candidates examined are exactly Q's and the seeds stored exactly those
\* a search with Q stores; and the two searches of the same constraint whose
\* pillar seeds are 0xABCD8888 and 0x8888 write the same file.
C27_PillarHighHalf ==
    kernel = "pillar" =>
        /\ \A Q \in SameLow16(h_pillarseed) :
              /\ \A lo \in sample.lower16s : \A up \in sample.upper16s :
                    PillarCandidate(Q, lo, up) = PillarCandidate(h_pillarseed, lo, up)
              /\ examined \subseteq PillarExamines(Q)
              /\ (KernelDone /\ ~deviceFault) =>
                    /\ examined = PillarExamines(Q)
                    /\ StoredSeeds = PillarEmits(Q, h_all_constraints)
        /\ (pc = "exit" /\ exit_code = 0 /\ h_pillarseed \in SameLow16(PillarA)
              /\ file = ScenPillarA.file) =>
                 outfile = <<SeedA>>

\* C27's case: the search with the pillar seed 0x8888, which differs from
\* 0xABCD8888 in the high half only, has examined its four candidates and
\* written the seed the search with 0xABCD8888 writes
C27_Witness ==
    /\ kernel = "pillar" /\ pc = "exit"
    /\ h_pillarseed = FromNat(34952) /\ h_pillarseed # PillarA
    /\ PillarA \in SameLow16(h_pillarseed)
    /\ Cardinality(examined) = 4
    /\ outfile = <<SeedA>>

\* A search was started and has ended without a device error
SearchCompleted == pc = "exit" /\ launched # << >> /\ ~deviceFault

\* C28 (zero-hit frame effect): a search that has completed with a hit count
\* of zero has left main with exit code 0 and found_seeds.txt unopened, also
\* when stage 1 left no low-20 candidate and no stage-2 kernel was launched;
\* the step that ends such a search changes nothing but the program position
\* and the exit code; and no step of any run touches the file except the one
\* that ends a search with a hit count above zero.
C28_ZeroHitFrame ==
    /\ [](SearchCompleted /\ d_found_count = 0 => exit_code = 0 /\ outfile = NoFile)
    /\ [](SearchCompleted /\ lower20_count = 0 /\ kernel \in {"none", "filter"} =>
            /\ d_found_count = 0 /\ exit_code = 0 /\ outfile = NoFile
            /\ Range(launched) \cap {"reverse", "brute", "pillar"} = {})
    /\ [][ /\ (pc = "sync" /\ pc' = "exit" /\ ~deviceFault /\ d_found_count = 0) =>
                /\ exit_code' = 0
                /\ outfile' = outfile /\ outfile = NoFile
                /\ UNCHANGED << inputVars, kernel, tasks, holding, filterVars, foundVars,
                                deviceFault, d_valid_lower20bits, lower20_count, d_anchor,
                                d_validators, warned, launched >>
           /\ outfile' # outfile =>
                pc = "sync" /\ pc' = "exit" /\ d_found_count > 0 /\ outfile = NoFile
       ]_vars

\* C28's case: two shipwreck constraints no low-20 value satisfies together;
\* the filter kernel ran over both values followed and stored none, stage 2
\* was skipped, and main has returned 0 without opening the file
C28_Witness ==
    /\ pc = "exit" /\ exit_code = 0
    /\ launched = << "stage1", "filter" >>
    /\ Len(h_all_constraints) = 2
    /\ Cardinality(sample.low20s) = 2
    /\ lower20_count = 0 /\ d_found_count = 0
    /\ examined = {}
    /\ outfile = NoFile

\* A stage-2 or pillarseed kernel that examined candidates and accepted none
C28_KernelRanWithoutHit ==
    /\ pc = "exit" /\ exit_code = 0
    /\ Range(launched) \cap {"reverse", "brute", "pillar"} # {}
    /\ examined # {} /\ d_found_count = 0
    /\ outfile = NoFile

=============================================================================
